------------------------------- MODULE Broker -------------------------------
(***************************************************************************)
(* The process "brks server" (cmd/brks, pkg/server/broker.go) around the   *)
(* catalog handlers: it reads its command line, builds a client of the     *)
(* cluster (NewClient, resolveConfig, CreateRESTConfig in                  *)
(* pkg/platform/kube/crd/client.go:79-169), listens and serves.  Any of    *)
(* these steps may fail, the process may be killed at any time, and is     *)
(* launched again by whoever supervises it.                                *)
(*                                                                         *)
(* The kubeconfig file is looked at twice, by Stat and when it is read;    *)
(* others may write it in between, so that each access finds any state.    *)
(***************************************************************************)
EXTENDS BrokerCatalog

CONSTANTS
    Builds,      \* the sets of known types that binaries are built with
    KubeConfigs, \* contents of a kubeconfig file a client can be built from
    NoFile, EmptyFile, BadFile,  \* the other states of the file
    InCluster,   \* the configuration of a pod
    NoConfig

VARIABLES
    stage,   \* what the process does next, "down" when there is none
    path,    \* whether its variable kubeconfig names a file or is empty
    config,  \* the configuration its client is built from
    exit,    \* the exit status of the last process
    seen     \* the states in which this process has found the file

processVars == <<stage, path, config, exit, seen>>
allVars == <<vars, processVars>>

Files == KubeConfigs \cup {NoFile, EmptyFile, BadFile}

ASSUME BrokerAssumption ==
    /\ \A b \in Builds : b \subseteq Types
    /\ InCluster \notin KubeConfigs /\ NoConfig \notin KubeConfigs \cup {InCluster}
    /\ NoFile # EmptyFile /\ BadFile \notin {NoFile, EmptyFile}
    /\ {NoFile, EmptyFile, BadFile} \cap KubeConfigs = {}

-----------------------------------------------------------------------------
(* The end of the process takes its handlers with it; clients it has       *)
(* answered are gone.                                                      *)
Dies(status) ==
    /\ stage' = "down" /\ exit' = status
    /\ path' = FALSE /\ config' = NoConfig /\ seen' = {}
    /\ pc' = [h \in Handlers |-> "idle"]
    /\ response' = [h \in Handlers |-> IF pc[h] = "idle" THEN NoResponse ELSE Lost]
    /\ todo' = [h \in Handlers |-> {}]
    /\ services' = [h \in Handlers |-> << >>]
    /\ UNCHANGED <<log, since, failed>>

Fatalf == Dies("-1")

Goes(to) == stage' = to /\ UNCHANGED <<vars, exit>>

(* "brks server", with --kubeconfig or without.                            *)
Launch ==
    /\ stage = "down" /\ path' \in BOOLEAN
    /\ stage' = "client" /\ exit' = "none"
    /\ UNCHANGED <<vars, config, seen>>

(* PersistentPreRunE refuses an argument, and main exits (root.go:31-36).  *)
RefusedLaunch == stage = "down" /\ Dies("-1")

(* NewClient looks for the types of the descriptor among those it knows.   *)
NewClient ==
    /\ stage = "client"
    /\ \E known \in Builds :
        \/ Types \subseteq known /\ Goes("stat") /\ UNCHANGED <<path, config, seen>>
        \/ ~(Types \subseteq known) /\ Fatalf

\* Mistake: the configuration of the pod stands in for a file that is missing.
resolveConfigLeniently ==
    /\ stage = "stat" /\ Goes("rest") /\ UNCHANGED config
    /\ \/ ~path /\ UNCHANGED <<path, seen>>
       \/ path /\ \E f \in Files : path' = (f \in KubeConfigs) /\ seen' = {f}

\* Mistake: NewClient starts again when the file is not there.
resolveConfigRetrying ==
    /\ stage = "stat"
    /\ \/ ~path /\ Goes("rest") /\ UNCHANGED <<path, config, seen>>
       \/ /\ path /\ Goes("rest") /\ UNCHANGED config
          /\ \E f \in Files \ {NoFile} : path' = (f # EmptyFile) /\ seen' = {f}
       \/ path /\ Goes("client") /\ UNCHANGED <<path, config, seen>>

(* Stat fails, or finds the file empty, or finds it to hold something.     *)
resolveConfig ==
    /\ stage = "stat"
    /\ \/ ~path /\ Goes("rest") /\ UNCHANGED <<path, config, seen>>
       \/ /\ path /\ Goes("rest") /\ UNCHANGED config
          /\ \E f \in Files \ {NoFile} : path' = (f # EmptyFile) /\ seen' = {f}
       \/ path /\ Fatalf

Connects(c, found) ==
    /\ Goes("listen")
    /\ config' = c /\ path' = FALSE /\ seen' = seen \cup found

\* Mistake: the error of CreateRESTConfig is not looked at.
CreateRESTConfigUnchecked ==
    /\ stage = "rest"
    /\ \/ ~path /\ Connects(InCluster, {})
       \/ path  /\ \E f \in KubeConfigs : Connects(f, {f})
       \/ path  /\ Connects(InCluster, {EmptyFile})
       \/ Connects(NoConfig, {})

(***************************************************************************)
(* Outside a pod there is no InClusterConfig.  A file that has been        *)
(* emptied after Stat is an error or, in a pod, its configuration: that is *)
(* up to clientcmd.                                                        *)
(***************************************************************************)
CreateRESTConfig ==
    /\ stage = "rest"
    /\ \/ ~path /\ Connects(InCluster, {})
       \/ path  /\ \E f \in KubeConfigs : Connects(f, {f})
       \/ path  /\ Connects(InCluster, {EmptyFile})
       \/ Fatalf

(* ListenAndServe; when the port is taken the error is logged and the      *)
(* process ends as if nothing had happened (broker.go:59-61).              *)
Listen ==
    /\ stage = "listen"
    /\ \/ Goes("serving") /\ seen' = {} /\ UNCHANGED <<path, config>>
       \/ Dies("0")

(* Accept fails: Start returns, main returns, handlers are not awaited.    *)
ServeFails == stage = "serving" /\ Dies("0")

Kill == stage # "down" /\ Dies("killed")

-----------------------------------------------------------------------------
CreateServer == NewClient \/ resolveConfig \/ CreateRESTConfig

runServer == CreateServer \/ Listen

(* Requests reach handlers through the router of a process that serves.    *)
Request == stage = "serving" /\ \E h \in Handlers : Catalog(h)

BrokerInit ==
    /\ Init
    /\ stage = "down" /\ path = FALSE /\ config = NoConfig
    /\ exit = "none" /\ seen = {}

BrokerNext ==
    \/ Launch \/ RefusedLaunch \/ runServer \/ ServeFails \/ Kill
    \/ (Request \/ (\E h \in Handlers : Handle(h)) \/ StoreWrite) /\ UNCHANGED processVars

(* A process that starts goes on, and so do the goroutines of one that     *)
(* serves.                                                                 *)
BrokerFairness ==
    /\ WF_allVars(runServer)
    /\ \A h \in Handlers : WF_allVars(Handle(h) /\ UNCHANGED processVars)

BrokerSpec == BrokerInit /\ [][BrokerNext]_allVars /\ BrokerFairness

-----------------------------------------------------------------------------
(* Properties *)

Stages == {"down", "client", "stat", "rest", "listen", "serving"}

\* Every variable of the process holds a value of its type: there is a client
\* when it listens, and handlers run only while it serves.
ProcessTypeOK ==
    /\ stage \in Stages /\ path \in BOOLEAN
    /\ config \in IF stage \in {"listen", "serving"} THEN KubeConfigs \cup {InCluster} ELSE {NoConfig}
    /\ \A h \in Handlers : pc[h] # "idle" => stage = "serving"
    /\ exit \in {"none", "0", "-1", "killed"}
    /\ seen \subseteq Files

(***************************************************************************)
(* However the file changes between Stat and the read, a process that is   *)
(* about to listen uses the configuration it was pointed to: that of the   *)
(* file as it was found, or that of the pod when no file was named or the  *)
(* file was found empty (client.go:137-139).                               *)
(***************************************************************************)
UsesNamedConfig ==
    stage = "listen" =>
        \/ config \in seen
        \/ config = InCluster /\ (seen = {} \/ EmptyFile \in seen)

(* Launching ends: the process serves or has an exit status.               *)
LaunchEnds == stage = "client" ~> stage \in {"serving", "down"}
=============================================================================
