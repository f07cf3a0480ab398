------------------------------ MODULE DisaggSidecar ------------------------------
(***************************************************************************)
(* The proxy of turing/serving/disagg_sidecar.py, one for each pod, when   *)
(* the prefiller that a request names is the sidecar of a pod.  The        *)
(* handler is async but calls urlopen, so that from the end of             *)
(* request.json() to its answer it keeps the event loop of its sidecar.    *)
(*                                                                         *)
(* A job is a request as one sidecar gets it: the client's, or the prefill *)
(* that another sidecar delegates, in which the header with the prefiller  *)
(* is not passed on.  Engines are external: they answer, fail or are slow. *)
(***************************************************************************)
EXTENDS Integers, FiniteSets

CONSTANTS
  Pods,        (* the pods, each with a sidecar and an engine              *)
  Completions, (* requests that clients send to /v1/completions            *)
  NoPod,       (* no x-prefiller-host-port header                          *)
  NoJob        (* a handler that runs nothing                              *)

ASSUME SidecarAssumption == NoPod \notin Pods

Jobs == Completions \X {"client", "prefill"}

ASSUME NoJobAssumption == NoJob \notin Jobs

VARIABLES
  podOf,       (* the pod that a client sends its request to               *)
  prefiller,   (* the pod that its header names, or NoPod                  *)
  accepted,    (* jobs that wait for the event loop of their sidecar       *)
  running,     (* the job whose handler keeps the loop of a pod            *)
  urlopen,     (* the call that handler is in: "prefill" or "local"        *)
  answer       (* of a job: "none", "ok", "500" or "502"                   *)

sidecarVars == <<podOf, prefiller, accepted, running, urlopen, answer>>

PodOfJob(job) == IF job[2] = "client" THEN podOf[job[1]] ELSE prefiller[job[1]]

(* should_disaggregate(): a delegated job names no prefiller.              *)
Disaggregates(job) == job[2] = "client" /\ prefiller[job[1]] # NoPod

SidecarInit ==
  /\ podOf \in [Completions -> Pods]
  /\ prefiller \in [Completions -> Pods \cup {NoPod}]
  /\ accepted = {}
  /\ running = [p \in Pods |-> NoJob]
  /\ urlopen = [p \in Pods |-> "local"]
  /\ answer = [job \in Jobs |-> "none"]

Arrives(job) ==
  /\ job \notin accepted
  /\ answer[job] = "none"
  /\ \A p \in Pods : running[p] # job

ClientSends(r) ==
  /\ Arrives(<<r, "client">>)
  /\ accepted' = accepted \cup {<<r, "client">>}
  /\ UNCHANGED <<podOf, prefiller, running, urlopen, answer>>

(* The handler goes on after request.json(), up to its first urlopen.      *)
BeginHandler(p) ==
  \E job \in accepted :
    /\ PodOfJob(job) = p
    /\ running[p] = NoJob
    /\ running' = [running EXCEPT ![p] = job]
    /\ urlopen' = [urlopen EXCEPT ![p] = IF Disaggregates(job) THEN "prefill" ELSE "local"]
    /\ accepted' = (accepted \ {job})
         \cup (IF Disaggregates(job) THEN {<<job[1], "prefill">>} ELSE {})
    /\ UNCHANGED <<podOf, prefiller, answer>>

EndHandler(p, status) ==
  /\ running[p] # NoJob
  /\ answer' = [answer EXCEPT ![running[p]] = status]
  /\ running' = [running EXCEPT ![p] = NoJob]
  /\ UNCHANGED <<podOf, prefiller, accepted, urlopen>>

Delegated(p) == <<running[p][1], "prefill">>

(* execute_remote_prefill() returns, and the local engine is called; an    *)
(* error status of the prefiller is a URLError and becomes a RuntimeError. *)
PrefillAnswered(p) ==
  /\ running[p] # NoJob /\ urlopen[p] = "prefill"
  /\ answer[Delegated(p)] = "ok"
  /\ urlopen' = [urlopen EXCEPT ![p] = "local"]
  /\ UNCHANGED <<podOf, prefiller, accepted, running, answer>>

PrefillFailed(p) ==
  /\ running[p] # NoJob /\ urlopen[p] = "prefill"
  /\ answer[Delegated(p)] \in {"500", "502"}
  /\ EndHandler(p, "500")

LocalAnswered(p) == urlopen[p] = "local" /\ EndHandler(p, "ok")

(* Mutant: the delegated call is made without a timeout.                   *)
GivesUpLocalOnly(p) == urlopen[p] = "local" /\ EndHandler(p, "502")

(* urlopen has waited for timeout_s, or the local engine fails.            *)
GivesUp(p) == EndHandler(p, IF urlopen[p] = "local" THEN "502" ELSE "500")

CallEnds(p) == PrefillAnswered(p) \/ PrefillFailed(p) \/ LocalAnswered(p) \/ GivesUp(p)

SidecarNext ==
  \/ \E r \in Completions : ClientSends(r)
  \/ \E p \in Pods : BeginHandler(p) \/ CallEnds(p)

(* An event loop runs what is ready; a socket does not wait for ever.      *)
SidecarFairness == \A p \in Pods :
  WF_sidecarVars(BeginHandler(p)) /\ WF_sidecarVars(CallEnds(p))

SidecarSpec == SidecarInit /\ [][SidecarNext]_sidecarVars /\ SidecarFairness

-----------------------------------------------------------------------------
(* Every request that a sidecar accepts is answered, also when the         *)
(* sidecars of two pods delegate to each other, or one to itself, and so   *)
(* keep the loops that would have to serve the delegated jobs              *)
(* (proxy_completions, execute_remote_prefill).                            *)
RequestsEnd ==
  \A job \in Jobs : job \in accepted ~> answer[job] # "none"
=============================================================================
