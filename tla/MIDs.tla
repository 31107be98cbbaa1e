-------------------------------- MODULE MIDs --------------------------------
(***************************************************************************)
(* The packet-identifier service of paho/message_ids.go (type MIDs) and    *)
(* the callers that use it.                                                *)
(*                                                                         *)
(* MIDs keeps index : uint16 -> *CPContext and lastIdUsed : uint16 under   *)
(* one mutex; Request, Get and Free take it, Clear does not.  Each         *)
(* operation is one atomic step: Request, Get and Free run entirely        *)
(* inside the mutex, and Clear is a single assignment of the map field.    *)
(*                                                                         *)
(* The id space 1..65535 is scaled to 1..MaxID: every literal 65535 of the *)
(* code is MaxID here.  A CPContext is a model value of Ctx; one caller    *)
(* owns one CPContext.  The callers (request, send, wait for the reply or  *)
(* give up, deferred Free) and the acknowledgements on the wire belong to  *)
(* the client, which is not in this repository: they are modelled from    *)
(* the spec (sections 4.5, 5 and 6).                                       *)
(***************************************************************************)
EXTENDS Naturals

CONSTANTS
    MaxID,   \* stands for 65535, the largest uint16
    Ctx,     \* the CPContexts, one per caller
    NoCtx    \* the nil *CPContext that Get returns for an absent key

ASSUME MaxIDAssumption == MaxID \in Nat \ {0}
ASSUME NoCtxAssumption == NoCtx \notin Ctx

VARIABLES
    index,       \* MIDs.index, absent keys map to NoCtx
    lastIdUsed,  \* MIDs.lastIdUsed
    status,      \* caller side: "idle", "waiting" for the reply, "acked"
    held,        \* caller side: the id the caller's exchange uses (0: none)
    wire         \* packets sent and not yet acknowledged: <<id, sender>>

vars == <<index, lastIdUsed, status, held, wire>>

Ids == 1..MaxID          \* the ids Request may issue
Keys == 0..MaxID         \* every uint16 key of the map

-----------------------------------------------------------------------------
(* The MIDs service.                                                       *)

\* getNextId(startFrom) returns j: the loop from startFrom up to, but not
\* including, 65535 passes only ids in use and stops at the free id j, or
\* runs out and returns 0.  The guard startFrom > 65535 can never hold for a
\* uint16 and is left out.
getNextId(startFrom, j) ==
    /\ \A k \in startFrom..(IF j = 0 THEN MaxID - 1 ELSE j - 1) : index[k] # NoCtx
    /\ j # 0 => j \in startFrom..(MaxID - 1) /\ index[j] = NoCtx

\* The first id Request tries: the one after lastIdUsed, 65535 wrapping to 1.
NextAfterLast == IF lastIdUsed < MaxID THEN lastIdUsed + 1 ELSE 1

\* The caller that owns CPContext c has been given id i and sends its packet.
Issue(c, i) ==
    /\ held' = [held EXCEPT ![c] = i]
    /\ status' = [status EXCEPT ![c] = "waiting"]
    /\ wire' = wire \cup {<<i, c>>}

\* Request, first branch: the id after lastIdUsed is free and is issued.
RequestDirect(c, i) ==
    /\ index[i] = NoCtx
    /\ index' = [index EXCEPT ![i] = c]
    /\ lastIdUsed' = i
    /\ Issue(c, i)

\* Request, second branch: that id is taken; getNextId scans on from it.
RequestScan(c, i) ==
    /\ index[i] # NoCtx
    /\ \E j \in Ids :
          /\ getNextId(i, j)
          /\ index' = [index EXCEPT ![j] = c]
          /\ lastIdUsed' = j
          /\ Issue(c, j)

\* Request, last branch: the scan found nothing; ErrNoMoreIDs is returned,
\* but lastIdUsed keeps its increment.
RequestExhausted(c, i) ==
    /\ index[i] # NoCtx
    /\ getNextId(i, 0)
    /\ lastIdUsed' = i
    /\ UNCHANGED <<index, status, held, wire>>

\* An idle caller calls Request with its CPContext.
Request(c) ==
    /\ status[c] = "idle"
    /\ \/ RequestDirect(c, NextAfterLast)
       \/ RequestScan(c, NextAfterLast)
       \/ RequestExhausted(c, NextAfterLast)

\* Get: the CPContext stored for id i, NoCtx when absent.
Get(i) == index[i]

\* Mutant of FreeId: the entry is left in place.
FreeIdKept(i) == index

\* Free: the map after delete(m.index, i).
FreeId(i) == [index EXCEPT ![i] = NoCtx]

\* Clear: a fresh, empty map, installed without taking the mutex.
Clear ==
    /\ index' = [k \in Keys |-> NoCtx]
    /\ UNCHANGED <<lastIdUsed, status, held, wire>>

-----------------------------------------------------------------------------
(* The client around MIDs (spec sections 4.5, 5, 6).                       *)

\* The acknowledgement of a packet on the wire arrives: the client looks the
\* id up with Get and, when a waiting CPContext is found, sends the reply on
\* its Return channel; an absent id is dropped as a late or duplicate ack.
Ack(p) ==
    /\ p \in wire
    /\ wire' = wire \ {p}
    /\ LET c == Get(p[1])
       IN  status' = IF c # NoCtx /\ status[c] = "waiting"
                     THEN [status EXCEPT ![c] = "acked"]
                     ELSE status
    /\ UNCHANGED <<index, lastIdUsed, held>>

\* A caller returns, with the reply or because its context is done, and its
\* deferred Free releases the id.
Finish(c) ==
    /\ status[c] \in {"waiting", "acked"}
    /\ index' = FreeId(held[c])
    /\ status' = [status EXCEPT ![c] = "idle"]
    /\ held' = [held EXCEPT ![c] = 0]
    /\ UNCHANGED <<lastIdUsed, wire>>

-----------------------------------------------------------------------------
Init ==
    /\ index = [k \in Keys |-> NoCtx]
    /\ lastIdUsed = 0
    /\ status = [c \in Ctx |-> "idle"]
    /\ held = [c \in Ctx |-> 0]
    /\ wire = {}

\* The steps of one session: no Clear.
SessionNext ==
    \/ \E c \in Ctx : Request(c) \/ Finish(c)
    \/ \E p \in wire : Ack(p)

Next == SessionNext \/ Clear

Spec == Init /\ [][Next]_vars

SessionSpec == Init /\ [][SessionNext]_vars

-----------------------------------------------------------------------------
(* Properties.                                                             *)

\* Every variable has its type; in particular lastIdUsed never leaves the
\* uint16 range 0..65535, which relies on the wrap of Request's increment.
TypeOK ==
    /\ index \in [Keys -> Ctx \cup {NoCtx}]
    /\ lastIdUsed \in Keys
    /\ status \in [Ctx -> {"idle", "waiting", "acked"}]
    /\ held \in [Ctx -> Keys]
    /\ wire \subseteq Ids \X Ctx

\* Every entry of the index belongs to a caller that is still in its
\* exchange and holds exactly that id, and id 0 is never used: Request,
\* Free and Clear (even racing with callers that still wait) never leave an
\* entry behind that Get could hand to a caller that is not waiting on it.
IndexOwned ==
    /\ index[0] = NoCtx
    /\ \A i \in Ids :
          index[i] # NoCtx => /\ status[index[i]] # "idle"
                              /\ held[index[i]] = i

\* No two callers that are in an exchange hold the same packet id: Request
\* never issues an id that is in use.  (Spec sections 7 and 8.)
NoSharedIds ==
    \A c, d \in Ctx :
        (c # d /\ status[c] # "idle" /\ status[d] # "idle")
            => held[c] # held[d]

\* A caller's deferred Free removes only the entry of its own exchange, never
\* the entry of another exchange that has been given the same id (spec 4.5:
\* Clear invalidates every in-flight exchange; spec 5: a caller that gives
\* up frees its own id).
FreeRemovesOwnEntry ==
    [][\A c \in Ctx : Finish(c) => index[held[c]] \in {c, NoCtx}]_vars

\* Request fails with ErrNoMoreIDs only when every id is in use (spec
\* sections 4.5 and 7: the probe wraps once over the whole space).
ExhaustedOnlyWhenFull ==
    [][\A c \in Ctx :
          (status[c] = "idle" /\ RequestExhausted(c, NextAfterLast))
              => \A i \in Ids : index[i] # NoCtx]_vars

=============================================================================
