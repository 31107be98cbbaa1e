----------------------------- MODULE MIDs_proofs -----------------------------
(***************************************************************************)
(* Proofs about the packet-identifier service, for every MaxID and every   *)
(* set of callers: the type invariant, and IndexOwned, the invariant that *)
(* the index only holds entries of exchanges still in progress.            *)
(***************************************************************************)
EXTENDS MIDs, TLAPS

\* The id Request tries first is a valid id.
LEMMA NextAfterLastType ==
    ASSUME TypeOK
    PROVE  NextAfterLast \in Ids
BY MaxIDAssumption DEF TypeOK, NextAfterLast, Ids, Keys

\* An id getNextId returns, other than 0, is a free id.
LEMMA GetNextIdFree ==
    ASSUME NEW i \in Ids, NEW j \in Ids, getNextId(i, j)
    PROVE  index[j] = NoCtx
BY DEF getNextId, Ids

-----------------------------------------------------------------------------
(* Type correctness.                                                       *)

\* Every step of MIDs and of its callers keeps each variable in its type:
\* lastIdUsed stays in the uint16 range, held ids are map keys.
LEMMA TypeOKStep == TypeOK /\ [Next]_vars => TypeOK'
<1> SUFFICES ASSUME TypeOK, [Next]_vars PROVE TypeOK'
  OBVIOUS
<1>1. ASSUME NEW c \in Ctx, Request(c) PROVE TypeOK'
  <2> DEFINE i == NextAfterLast
  <2>1. i \in Ids
    BY NextAfterLastType
  <2>2. CASE RequestDirect(c, i)
    BY <2>1, <2>2 DEF RequestDirect, Issue, TypeOK, Ids, Keys
  <2>3. CASE RequestScan(c, i)
    BY <2>3 DEF RequestScan, Issue, TypeOK, Ids, Keys
  <2>4. CASE RequestExhausted(c, i)
    BY <2>1, <2>4 DEF RequestExhausted, TypeOK, Ids, Keys
  <2>5. QED
    BY <1>1, <2>2, <2>3, <2>4 DEF Request
<1>2. ASSUME NEW c \in Ctx, Finish(c) PROVE TypeOK'
  BY <1>2, MaxIDAssumption DEF Finish, FreeId, TypeOK, Keys
<1>3. ASSUME NEW p \in wire, Ack(p) PROVE TypeOK'
  BY <1>3 DEF Ack, Get, TypeOK, Ids, Keys
<1>4. CASE Clear
  BY <1>4 DEF Clear, TypeOK, Keys
<1>5. CASE UNCHANGED vars
  BY <1>5 DEF vars, TypeOK
<1>6. QED
  BY <1>1, <1>2, <1>3, <1>4, <1>5 DEF Next, SessionNext

\* Every reachable state gives each variable of MIDs and of its callers
\* its type.
THEOREM TypeCorrect == Spec => []TypeOK
<1>1. Init => TypeOK
  BY NoCtxAssumption, MaxIDAssumption DEF Init, TypeOK, Keys, Ids
<1>2. QED
  BY <1>1, TypeOKStep, PTL DEF Spec

-----------------------------------------------------------------------------
(* IndexOwned.                                                             *)

\* The inductive invariant: IndexOwned together with the types.
IInv == TypeOK /\ IndexOwned

\* Request by an idle caller c that stores c under a free id j keeps every
\* entry owned: the entries that were there belong to other, non-idle
\* callers, whose state the step leaves alone.
LEMMA IssuePreservesOwned ==
    ASSUME IInv, NEW c \in Ctx, NEW j \in Ids,
           status[c] = "idle", index[j] = NoCtx,
           index' = [index EXCEPT ![j] = c],
           Issue(c, j)
    PROVE  IndexOwned'
<1> USE DEF IInv, TypeOK, Ids, Keys
<1>1. index'[0] = NoCtx
  BY DEF IndexOwned
<1>2. ASSUME NEW k \in Ids, index'[k] # NoCtx
      PROVE  status'[index'[k]] # "idle" /\ held'[index'[k]] = k
  <2>1. CASE k = j
    BY <2>1 DEF Issue
  <2>2. CASE k # j
    <3>1. index[k] # NoCtx /\ index'[k] = index[k]
      BY <1>2, <2>2
    <3>2. index[k] # c
      BY <3>1 DEF IndexOwned
    <3>3. QED
      BY <3>1, <3>2 DEF Issue, IndexOwned
  <2>3. QED
    BY <2>1, <2>2
<1>3. QED
  BY <1>1, <1>2 DEF IndexOwned

\* A caller's Free removes its own entry and leaves the others in place.
LEMMA FinishPreservesOwned ==
    ASSUME IInv, NEW c \in Ctx, Finish(c)
    PROVE  IndexOwned'
<1> USE DEF IInv, TypeOK, Ids, Keys
<1>1. index'[0] = NoCtx
  BY DEF Finish, FreeId, IndexOwned
<1>2. ASSUME NEW k \in Ids, index'[k] # NoCtx
      PROVE  status'[index'[k]] # "idle" /\ held'[index'[k]] = k
  <2>1. k # held[c] /\ index'[k] = index[k] /\ index[k] # NoCtx
    BY <1>2 DEF Finish, FreeId
  <2>2. index[k] # c
    BY <2>1 DEF IndexOwned
  <2>3. QED
    BY <2>1, <2>2 DEF Finish, IndexOwned
<1>3. QED
  BY <1>1, <1>2 DEF IndexOwned

\* IInv is inductive.
LEMMA IInvInductive == IInv /\ [Next]_vars => IInv'
<1> SUFFICES ASSUME IInv, [Next]_vars PROVE IInv'
  OBVIOUS
<1>1. TypeOK'
  BY TypeOKStep DEF IInv
<1>2. IndexOwned'
  <2>1. ASSUME NEW c \in Ctx, Request(c) PROVE IndexOwned'
    <3> DEFINE i == NextAfterLast
    <3>1. i \in Ids
      BY NextAfterLastType DEF IInv
    <3>2. CASE RequestDirect(c, i)
      BY <2>1, <3>1, <3>2, IssuePreservesOwned DEF Request, RequestDirect
    <3>3. CASE RequestScan(c, i)
      <4>1. PICK j \in Ids : /\ getNextId(i, j)
                             /\ index' = [index EXCEPT ![j] = c]
                             /\ Issue(c, j)
        BY <3>3 DEF RequestScan
      <4>2. index[j] = NoCtx
        BY <3>1, <4>1, GetNextIdFree
      <4>3. QED
        BY <2>1, <4>1, <4>2, IssuePreservesOwned DEF Request
    <3>4. CASE RequestExhausted(c, i)
      BY <3>4 DEF RequestExhausted, IInv, IndexOwned
    <3>5. QED
      BY <2>1, <3>2, <3>3, <3>4 DEF Request
  <2>2. ASSUME NEW c \in Ctx, Finish(c) PROVE IndexOwned'
    BY <2>2, FinishPreservesOwned
  <2>3. ASSUME NEW p \in wire, Ack(p) PROVE IndexOwned'
    BY <2>3 DEF Ack, Get, IInv, TypeOK, IndexOwned, Ids, Keys
  <2>4. CASE Clear
    BY <2>4, MaxIDAssumption DEF Clear, IndexOwned, Keys, Ids
  <2>5. CASE UNCHANGED vars
    BY <2>5 DEF vars, IInv, IndexOwned, Ids
  <2>6. QED
    BY <2>1, <2>2, <2>3, <2>4, <2>5 DEF Next, SessionNext
<1>3. QED
  BY <1>1, <1>2 DEF IInv

\* Every reachable state satisfies IndexOwned: no Request, Free, Clear or
\* acknowledgement ever leaves an entry in the index that belongs to an
\* idle caller or to a caller holding another id, and id 0 is never used.
THEOREM IndexOwnedInvariant == Spec => []IndexOwned
<1>1. Init => IInv
  BY NoCtxAssumption, MaxIDAssumption DEF Init, IInv, TypeOK, IndexOwned, Keys, Ids
<1>2. QED
  BY <1>1, IInvInductive, PTL DEF Spec, IInv

-----------------------------------------------------------------------------
(* NoSharedIds, within a session.                                          *)

\* Every caller in an exchange is the index entry of the id it holds.
HeldOwned ==
    \A c \in Ctx : status[c] # "idle" => held[c] \in Ids /\ index[held[c]] = c

\* The inductive invariant of a session: the types and HeldOwned.
SInv == TypeOK /\ HeldOwned

\* A Request that stores idle caller c under a free id j leaves every other
\* caller the entry of its id: that id is in use, so it is not j.
LEMMA IssueKeepsHeld ==
    ASSUME SInv, NEW c \in Ctx, NEW j \in Ids,
           status[c] = "idle", index[j] = NoCtx,
           index' = [index EXCEPT ![j] = c],
           Issue(c, j)
    PROVE  HeldOwned'
<1> USE DEF SInv, TypeOK, Ids, Keys
<1>1. ASSUME NEW d \in Ctx, status'[d] # "idle"
      PROVE  held'[d] \in Ids /\ index'[held'[d]] = d
  <2>1. CASE d = c
    BY <2>1 DEF Issue
  <2>2. CASE d # c
    <3>1. status[d] # "idle" /\ held'[d] = held[d]
      BY <1>1, <2>2 DEF Issue
    <3>2. held[d] \in Ids /\ index[held[d]] = d
      BY <3>1 DEF HeldOwned
    <3>3. held[d] # j
      BY <3>2, NoCtxAssumption
    <3>4. QED
      BY <3>1, <3>2, <3>3
  <2>3. QED
    BY <2>1, <2>2
<1>2. QED
  BY <1>1 DEF HeldOwned

\* A caller's Free of its own id leaves every other caller its entry.
LEMMA FinishKeepsHeld ==
    ASSUME SInv, NEW c \in Ctx, Finish(c)
    PROVE  HeldOwned'
<1> USE DEF SInv, TypeOK, Ids, Keys
<1>1. ASSUME NEW d \in Ctx, status'[d] # "idle"
      PROVE  held'[d] \in Ids /\ index'[held'[d]] = d
  <2>1. d # c /\ status[d] # "idle" /\ held'[d] = held[d]
    BY <1>1 DEF Finish
  <2>2. held[d] \in Ids /\ index[held[d]] = d /\ index[held[c]] = c
    BY <2>1 DEF Finish, HeldOwned
  <2>3. held[d] # held[c]
    BY <2>1, <2>2
  <2>4. QED
    BY <2>1, <2>2, <2>3 DEF Finish, FreeId
<1>2. QED
  BY <1>1 DEF HeldOwned

\* SInv is inductive for the steps of a session.
LEMMA SInvInductive == SInv /\ [SessionNext]_vars => SInv'
<1> SUFFICES ASSUME SInv, [SessionNext]_vars PROVE SInv'
  OBVIOUS
<1>1. TypeOK'
  BY TypeOKStep DEF SInv, Next
<1>2. HeldOwned'
  <2>1. ASSUME NEW c \in Ctx, Request(c) PROVE HeldOwned'
    <3> DEFINE i == NextAfterLast
    <3>1. i \in Ids
      BY NextAfterLastType DEF SInv
    <3>2. CASE RequestDirect(c, i)
      BY <2>1, <3>1, <3>2, IssueKeepsHeld DEF Request, RequestDirect
    <3>3. CASE RequestScan(c, i)
      <4>1. PICK j \in Ids : /\ getNextId(i, j)
                             /\ index' = [index EXCEPT ![j] = c]
                             /\ Issue(c, j)
        BY <3>3 DEF RequestScan
      <4>2. index[j] = NoCtx
        BY <3>1, <4>1, GetNextIdFree
      <4>3. QED
        BY <2>1, <4>1, <4>2, IssueKeepsHeld DEF Request
    <3>4. CASE RequestExhausted(c, i)
      BY <3>4 DEF RequestExhausted, SInv, HeldOwned
    <3>5. QED
      BY <2>1, <3>2, <3>3, <3>4 DEF Request
  <2>2. ASSUME NEW c \in Ctx, Finish(c) PROVE HeldOwned'
    BY <2>2, FinishKeepsHeld
  <2>3. ASSUME NEW p \in wire, Ack(p) PROVE HeldOwned'
    <3>1. \A d \in Ctx : status'[d] # "idle" => status[d] # "idle"
      BY <2>3 DEF Ack, Get, SInv, TypeOK
    <3>2. QED
      BY <2>3, <3>1 DEF Ack, SInv, HeldOwned
  <2>4. CASE UNCHANGED vars
    BY <2>4 DEF vars, SInv, HeldOwned
  <2>5. QED
    BY <2>1, <2>2, <2>3, <2>4 DEF SessionNext
<1>3. QED
  BY <1>1, <1>2 DEF SInv

\* Within a session (no Clear), no two callers in an exchange ever hold the
\* same packet identifier: Request never issues an id in use, whatever the
\* interleaving of Requests, acknowledgements and deferred Frees.
THEOREM NoSharedIdsInvariant == SessionSpec => []NoSharedIds
<1>1. Init => SInv
  BY NoCtxAssumption, MaxIDAssumption DEF Init, SInv, TypeOK, HeldOwned, Keys, Ids
<1>2. SInv => NoSharedIds
  BY DEF SInv, HeldOwned, NoSharedIds
<1>3. QED
  BY <1>1, <1>2, SInvInductive, PTL DEF SessionSpec


\* Within a session, a caller's Free finds its own CPContext under its id.
LEMMA FinishFindsOwnEntry ==
    ASSUME SInv, NEW c \in Ctx, Finish(c)
    PROVE  index[held[c]] \in {c, NoCtx}
BY DEF SInv, HeldOwned, Finish

\* Within a session (no Clear), a caller's deferred Free only ever deletes
\* the entry of its own exchange: between its Request and its Free no other
\* Request can be given its id, so the delete(m.index, i) of Free never
\* drops another caller's CPContext.  (With Clear, run mids_clear shows it
\* can.)
THEOREM FreeRemovesOwnEntryInSession == SessionSpec => FreeRemovesOwnEntry
<1>1. Init => SInv
  BY NoCtxAssumption, MaxIDAssumption DEF Init, SInv, TypeOK, HeldOwned, Keys, Ids
<1>2. SInv /\ [SessionNext]_vars
        => [\A c \in Ctx : Finish(c) => index[held[c]] \in {c, NoCtx}]_vars
  BY FinishFindsOwnEntry
<1>3. QED
  BY <1>1, <1>2, SInvInductive, PTL DEF SessionSpec, FreeRemovesOwnEntry

=============================================================================
