------------------------------ MODULE MCComponents -------------------------------
(* Instance for TLC of the components that keep a state of their own and    *)
(* share none: "component" says which of them a behaviour is of, and the    *)
(* others stay in one initial state.  So a run checks them all, each with   *)
(* the behaviours, and only those, that it has on its own, and with the     *)
(* fairness that is assumed of it alone.                                    *)
EXTENDS NativeTraffic, MultiModelManager, VirtualPages, NativeElastic,
  NativeLfruCache, RoutingHistory, SpectralForest, RadixTrie, KvEventStream,
  ComputeBatcher, ChainContext, ReasoningFilter, JsonRepair, SpeculativeDecode,
  DistributedDriver, WorkerPool, ApiFrontend, DisaggSidecar, TLC

CONSTANTS caller1, caller2, task1, task2, task3

VARIABLE component

MCRoots == (caller1 :> {task1}) @@ (caller2 :> {task2})
MCSpawns == (task1 :> {task3}) @@ (task2 :> {}) @@ (task3 :> {})

MCEstimates == {0, 1, 2, 5, 7, 9, 12, 17, 18, 20}
MCTierSize == <<4, 3, 2>>
MCTierBlocks == <<1, 1, 2>>
MCDraftScore == [d \in Drafts |-> IF d \in Truncated THEN -2 ELSE -1]

Task(task, len, new, candidates) ==
  [task |-> task, len |-> len, new |-> new, candidates |-> candidates]
MCTaskRequests ==
  {Task("embed", 1, 0, 0), Task("embed", 3, 0, 0),
   Task("rerank", 2, 0, 0), Task("rerank", 2, 0, 2),
   Task("generate", 0, 0, 0), Task("generate", 3, 4, 0)}

MCTokenShapes ==
  {<<"word">>, <<"open">>, <<"close">>, <<"half">>, <<"word", "open">>,
   <<"open", "word">>, <<"close", "word">>, <<"word", "close", "word">>}

(* A component that a behaviour is not of has one initial state.            *)
AtRest(name, state) == component # name => state

ComponentsInit ==
  /\ component \in
       {"admission", "native traffic", "models", "paging", "elastic", "native experts",
        "history", "forest", "trie", "events", "batcher", "chain", "reasoning", "json",
        "speculation", "driver", "pool", "api", "sidecars"}
  /\ AdmissionInit /\ NativeInit /\ ModelsInit
  /\ PagingInit /\ AtRest("paging", hasCsrc = FALSE)
  /\ ElasticInit
  /\ AtRest("elastic", countedSlots = MostSlots /\ countedPages = FewestPages)
  /\ LfruInit /\ HistoryInit /\ AtRest("history", ~has_native)
  /\ ForestInit /\ TrieInit /\ EventsInit
  /\ BatcherInit /\ AtRest("batcher", arrived = <<Task("embed", 1, 0, 0)>>)
  /\ ChainInit /\ ReasoningInit /\ JsonInit
  /\ SpecInit
  /\ AtRest("speculation", target = [s \in SpecTokens |-> 1] /\ decoded = <<1>>)
  /\ DriverInit /\ AtRest("driver", pp_size = 0)
  /\ PoolInit
  /\ ApiInit /\ AtRest("api", route = "chat" /\ asked = 0 /\ streamed)
  /\ SidecarInit
  /\ AtRest("sidecars", /\ podOf = [r \in Completions |-> CHOOSE pod \in Pods : TRUE]
                      /\ prefiller = [r \in Completions |-> NoPod])

storeVars == <<modelVars, pagingVars, elasticVars, lfruVars, historyVars>>
prefixVars == <<forestVars, trieVars, eventVars>>
requestVars == <<batcherVars, chainVars, reasoningVars, jsonText, specVars, driverVars>>
trafficVars == <<admissionVars, nativeVars>>
serverVars == <<vars, apiVars, sidecarVars>>

TrafficNext ==
  /\ \/ component = "admission" /\ AdmissionNext /\ UNCHANGED nativeVars
     \/ component = "native traffic" /\ NativeNext /\ UNCHANGED admissionVars
  /\ UNCHANGED <<storeVars, prefixVars, requestVars, serverVars>>

StoreNext ==
  /\ \/ /\ component = "models" /\ ModelsNext
        /\ UNCHANGED <<pagingVars, elasticVars, lfruVars, historyVars>>
     \/ /\ component = "paging" /\ PagingNext
        /\ UNCHANGED <<modelVars, elasticVars, lfruVars, historyVars>>
     \/ /\ component = "elastic" /\ ElasticNext
        /\ UNCHANGED <<modelVars, pagingVars, lfruVars, historyVars>>
     \/ /\ component = "native experts" /\ LfruNext
        /\ UNCHANGED <<modelVars, pagingVars, elasticVars, historyVars>>
     \/ /\ component = "history" /\ HistoryNext
        /\ UNCHANGED <<modelVars, pagingVars, elasticVars, lfruVars>>
  /\ UNCHANGED <<trafficVars, prefixVars, requestVars, serverVars>>

PrefixNext ==
  /\ \/ component = "forest" /\ ForestNext /\ UNCHANGED <<trieVars, eventVars>>
     \/ component = "trie" /\ TrieNext /\ UNCHANGED <<forestVars, eventVars>>
     \/ component = "events" /\ EventsNext /\ UNCHANGED <<forestVars, trieVars>>
  /\ UNCHANGED <<trafficVars, storeVars, requestVars, serverVars>>

RequestNext ==
  /\ \/ /\ component = "batcher" /\ BatcherNext
        /\ UNCHANGED <<chainVars, reasoningVars, jsonText, specVars, driverVars>>
     \/ /\ component = "chain" /\ ChainNext
        /\ UNCHANGED <<batcherVars, reasoningVars, jsonText, specVars, driverVars>>
     \/ /\ component = "reasoning" /\ ReasoningNext
        /\ UNCHANGED <<batcherVars, chainVars, jsonText, specVars, driverVars>>
     \/ /\ component = "json" /\ JsonNext
        /\ UNCHANGED <<batcherVars, chainVars, reasoningVars, specVars, driverVars>>
     \/ /\ component = "speculation" /\ SpecNext
        /\ UNCHANGED <<batcherVars, chainVars, reasoningVars, jsonText, driverVars>>
     \/ /\ component = "driver" /\ DriverNext
        /\ UNCHANGED <<batcherVars, chainVars, reasoningVars, jsonText, specVars>>
  /\ UNCHANGED <<trafficVars, storeVars, prefixVars, serverVars>>

ServerNext ==
  /\ \/ component = "pool" /\ PoolNext /\ UNCHANGED <<apiVars, sidecarVars>>
     \/ component = "api" /\ ApiNext /\ UNCHANGED <<vars, sidecarVars>>
     \/ component = "sidecars" /\ SidecarNext /\ UNCHANGED <<vars, apiVars>>
  /\ UNCHANGED <<trafficVars, storeVars, prefixVars, requestVars>>

ComponentsNext ==
  /\ TrafficNext \/ StoreNext \/ PrefixNext \/ RequestNext \/ ServerNext
  /\ UNCHANGED component

ComponentsFairness ==
  /\ \A w \in Workers : WF_vars(component = "pool" /\ WorkerStep(w))
  /\ \A c \in Callers : WF_vars(component = "pool" /\ CallerStep(c))
  /\ WF_vars(component = "pool" /\ OwnerStep)
  /\ WF_apiVars(component = "api" /\ Handler)
  /\ \A pod \in Pods :
       /\ WF_sidecarVars(component = "sidecars" /\ BeginHandler(pod))
       /\ WF_sidecarVars(component = "sidecars" /\ CallEnds(pod))

componentsVars == <<component, trafficVars, storeVars, prefixVars, requestVars, serverVars>>

ComponentsSpec == ComponentsInit /\ [][ComponentsNext]_componentsVars /\ ComponentsFairness
=============================================================================
