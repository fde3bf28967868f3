-------------------------- MODULE NodeModelsProofs --------------------------
(***************************************************************************)
(* Proofs about listModels of the Node.js client (NodeModels): its types,  *)
(* that nobody waits for a caller that has returned, and that it keeps the *)
(* promise of NodeModelList, for any number of callers and lists and for   *)
(* whatever the rest of the client does to the connection.                 *)
(***************************************************************************)
EXTENDS NodeModels, TLAPS

\* A caller that fetches, or that would fetch now, missed the cache during its call.
FetchersMissed ==
  /\ missed \subseteq {c \in Tasks : caller[c] # "idle"}
  /\ \A c \in Tasks : caller[c] = "fetching" => c \in missed
  /\ modelsCache = None => \A c \in Tasks : caller[c] # "idle" => c \in missed

Inv == ModelsTypeOK /\ WaitersHaveHolder /\ FetchersMissed

\* The initial state satisfies the invariant (the fields of CopilotClient).
LEMMA InitInv == ModelsInit => Inv
BY ModelsAssumption
   DEF ModelsInit, Inv, ModelsTypeOK, WaitersHaveHolder, FetchersMissed

\* Every step of a call keeps the invariant (listModels).
LEMMA CallerInv ==
  ASSUME Inv, NEW c \in Tasks, CallerNext(c)
  PROVE  Inv'
<1> USE ModelsAssumption
    DEF Inv, ModelsTypeOK, WaitersHaveHolder, FetchersMissed, connVars
<1>1. CASE listModels(c)
  <2>1. ModelsTypeOK' BY <1>1 DEF listModels
  <2>2. WaitersHaveHolder' BY <1>1 DEF listModels
  <2>3. FetchersMissed' BY <1>1 DEF listModels
  <2> QED BY <2>1, <2>2, <2>3
<1>2. CASE ListCached(c)
  <2>1. ModelsTypeOK' BY <1>2 DEF ListCached, Unlocked, ReturnAtOnce, Return
  <2>2. WaitersHaveHolder' BY <1>2 DEF ListCached, Unlocked, ReturnAtOnce, Return
  <2>3. FetchersMissed' BY <1>2 DEF ListCached, Unlocked, ReturnAtOnce, Return
  <2> QED BY <2>1, <2>2, <2>3
<1>3. CASE ListNotConnected(c)
  <2>1. ModelsTypeOK' BY <1>3 DEF ListNotConnected, Unlocked, ReturnAtOnce, Return
  <2>2. WaitersHaveHolder' BY <1>3 DEF ListNotConnected, Unlocked, ReturnAtOnce, Return
  <2>3. FetchersMissed' BY <1>3 DEF ListNotConnected, Unlocked, ReturnAtOnce, Return
  <2> QED BY <2>1, <2>2, <2>3
<1>4. CASE ListFetch(c)
  <2>1. ModelsTypeOK' BY <1>4 DEF ListFetch, Unlocked
  <2>2. WaitersHaveHolder' BY <1>4 DEF ListFetch, Unlocked
  <2>3. FetchersMissed' BY <1>4 DEF ListFetch, Unlocked
  <2> QED BY <2>1, <2>2, <2>3
<1>5. CASE \E list \in Lists : ListFetched(c, list)
  <2> PICK list \in Lists : ListFetched(c, list) BY <1>5
  <2>1. ModelsTypeOK' BY DEF ListFetched, Return, Release
  <2>2. WaitersHaveHolder' BY DEF ListFetched, Return, Release
  <2>3. FetchersMissed' BY DEF ListFetched, Return, Release
  <2> QED BY <2>1, <2>2, <2>3
<1>6. CASE ListFetchFails(c)
  <2>1. ModelsTypeOK' BY <1>6 DEF ListFetchFails, Return, Release
  <2>2. WaitersHaveHolder' BY <1>6 DEF ListFetchFails, Return, Release
  <2>3. FetchersMissed' BY <1>6 DEF ListFetchFails, Return, Release
  <2> QED BY <2>1, <2>2, <2>3
<1> QED BY <1>1, <1>2, <1>3, <1>4, <1>5, <1>6 DEF CallerNext

\* Nothing that happens to the connection breaks it (stop, forceStop, onClose).
LEMMA ClientInv == Inv /\ ClientNext => Inv'
<1> SUFFICES ASSUME Inv, ClientNext PROVE Inv' OBVIOUS
<1> USE DEF Inv, ModelsTypeOK, WaitersHaveHolder, FetchersMissed, callVars
<1>1. CASE /\ connection' \in Nat \ (disposed \cup closed \cup {0})
           /\ UNCHANGED <<disposed, closed, modelsCache, callVars>>
  BY <1>1
<1>2. CASE Disconnect
  <2>1. ModelsTypeOK' BY <1>2 DEF Disconnect
  <2>2. WaitersHaveHolder' BY <1>2 DEF Disconnect
  <2>3. FetchersMissed' BY <1>2 DEF Disconnect
  <2> QED BY <2>1, <2>2, <2>3
<1>3. CASE /\ closed \subseteq closed' /\ closed' \subseteq Nat \ {0}
           /\ UNCHANGED <<connection, disposed, modelsCache, callVars>>
  BY <1>3
<1> QED BY <1>1, <1>2, <1>3 DEF ClientNext

\* The invariant is inductive.
LEMMA Inductive == ModelsSpec => []Inv
<1>1. ModelsInit => Inv BY InitInv
<1>2. Inv /\ [ModelsNext]_modelVars => Inv'
  <2> SUFFICES ASSUME Inv, [ModelsNext]_modelVars PROVE Inv' OBVIOUS
  <2>1. CASE \E c \in Tasks : CallerNext(c) BY <2>1, CallerInv
  <2>2. CASE ClientNext BY <2>2, ClientInv
  <2>3. CASE UNCHANGED modelVars
    BY <2>3 DEF Inv, ModelsTypeOK, WaitersHaveHolder, FetchersMissed, modelVars,
                connVars, callVars
  <2> QED BY <2>1, <2>2, <2>3 DEF ModelsNext
<1> QED BY <1>1, <1>2, PTL DEF ModelsSpec

\* The variables keep their types whatever calls overlap (listModels).
THEOREM ModelsTyped == ModelsSpec => []ModelsTypeOK
<1>1. Inv => ModelsTypeOK BY DEF Inv
<1> QED BY <1>1, Inductive, PTL

\* Whoever waits for a promise waits for a caller whose request is out: the finally block
\* leaves nobody behind, and no two callers wait for each other (listModels).
THEOREM NobodyLeftWaiting == ModelsSpec => []WaitersHaveHolder
<1>1. Inv => WaitersHaveHolder BY DEF Inv
<1> QED BY <1>1, Inductive, PTL

----------------------------------------------------------------------------
(* The refinement *)

\* The initial state is one of NodeModelList.
LEMMA InitRefines == ModelsInit => ModelList!Init
BY DEF ModelsInit, ModelList!Init

\* A step of a call is a step of NodeModelList, or none (listModels).
LEMMA CallerRefines ==
  ASSUME Inv, NEW c \in Tasks, CallerNext(c)
  PROVE  [ModelList!Next]_(ModelList!vars)
<1> USE ModelsAssumption
    DEF Inv, ModelsTypeOK, WaitersHaveHolder, FetchersMissed, connVars, ModelList!vars
<1>1. CASE listModels(c)
  <2>1. ModelList!Call(c) BY <1>1 DEF listModels, ModelList!Call
  <2> QED BY <2>1 DEF ModelList!Next
<1>2. CASE ListCached(c)
  <2>1. ModelList!ReturnCached(c)
    BY <1>2 DEF ListCached, Unlocked, ReturnAtOnce, Return, ModelList!ReturnCached,
                ModelList!Return
  <2> QED BY <2>1 DEF ModelList!Next
<1>3. CASE ListNotConnected(c)
  <2>1. ModelList!Fail(c)
    BY <1>3 DEF ListNotConnected, Unlocked, ReturnAtOnce, Return, ModelList!Fail,
                ModelList!Return
  <2> QED BY <2>1 DEF ModelList!Next
<1>4. CASE ListFetch(c)
  <2>1. UNCHANGED ModelList!vars BY <1>4 DEF ListFetch, Unlocked
  <2> QED BY <2>1
<1>5. CASE \E list \in Lists : ListFetched(c, list)
  <2> PICK list \in Lists : ListFetched(c, list) BY <1>5
  <2>1. ModelList!ReturnFetched(c, list)
    BY DEF ListFetched, Return, Release, ModelList!ReturnFetched, ModelList!Return
  <2> QED BY <2>1 DEF ModelList!Next
<1>6. CASE ListFetchFails(c)
  <2>1. ModelList!Fail(c)
    BY <1>6 DEF ListFetchFails, Return, Release, ModelList!Fail, ModelList!Return
  <2> QED BY <2>1 DEF ModelList!Next
<1> QED BY <1>1, <1>2, <1>3, <1>4, <1>5, <1>6 DEF CallerNext

\* What happens to the connection is a Clear, or none of its steps (stop, forceStop).
LEMMA ClientRefines == Inv /\ ClientNext => [ModelList!Next]_(ModelList!vars)
<1> SUFFICES ASSUME Inv, ClientNext PROVE [ModelList!Next]_(ModelList!vars) OBVIOUS
<1>1. CASE Disconnect
  <2>1. ModelList!Clear BY <1>1 DEF Disconnect, ModelList!Clear
  <2> QED BY <2>1 DEF ModelList!Next
<1>2. CASE UNCHANGED <<modelsCache, callVars>>
  BY <1>2 DEF callVars, ModelList!vars
<1> QED BY <1>1, <1>2 DEF ClientNext, callVars

\* listModels keeps its promise: it fetches only when nothing was cached at some moment of
\* the call, caches what it fetched, and returns what is cached (listModels, stop).
THEOREM KeepsPromise == ModelsSpec => ModelListSpec
<1>1. ModelsInit => ModelList!Init BY InitRefines
<1>2. Inv /\ [ModelsNext]_modelVars => [ModelList!Next]_(ModelList!vars)
  <2> SUFFICES ASSUME Inv, [ModelsNext]_modelVars
               PROVE  [ModelList!Next]_(ModelList!vars)
    OBVIOUS
  <2>1. CASE \E c \in Tasks : CallerNext(c) BY <2>1, CallerRefines
  <2>2. CASE ClientNext BY <2>2, ClientRefines
  <2>3. CASE UNCHANGED modelVars BY <2>3 DEF modelVars, callVars, ModelList!vars
  <2> QED BY <2>1, <2>2, <2>3 DEF ModelsNext
<1> QED BY <1>1, <1>2, Inductive, PTL DEF ModelsSpec, ModelListSpec, ModelList!Spec
=============================================================================
