-------------------------- MODULE MoveBufferProofs --------------------------
(***************************************************************************)
(* Proofs about the move buffers, for any instances, messages and capacity *)
(* and every interleaving of the threads: reference counts are exact, the  *)
(* variants of a message are where its list or its owner says, counters    *)
(* are the lengths of the lists, and overfilling is bounded.               *)
(*                                                                         *)
(* The inductive invariant adds to the properties what a thread knows at   *)
(* each place of its program.  A sender that has not moved its message yet *)
(* holds the only reference to it, so nobody else can move, take or free   *)
(* it meanwhile; a receiver at work holds a message that is in no buffer;  *)
(* a thread with mb_lock read-locked stands at a buffer that is in the     *)
(* map, because those who destroy one need the write lock.  A thread that  *)
(* saw room keeps one place, which is what bounds the overfilling.         *)
(***************************************************************************)
EXTENDS MoveBuffer, ListLemmas

Place(t) ==
    /\ pc[t] = "idle" <=> mine[t] = None
    /\ pc[t] \in {"checked", "looping", "room"} => to[t] \in live
    /\ pc[t] \in {"checked", "looping", "room", "unsent"} => refcnt[mine[t]] = 1
    /\ pc[t] = "handling" => Holding(mine[t]) = {}

Places == \A t \in Inst : Place(t)

\* The threads that saw room in buffer b and have not added their message yet.
Expected(b) == {t \in Inst : pc[t] \in {"checked", "room"} /\ to[t] = b}

Reserved ==
    \A b \in Inst :
       nr_msgs[b] + Cardinality(Expected(b)) <= MaxMsgs - 1 + Cardinality(Inst)

IInv == /\ TypeOK /\ RefcntSound /\ HeapFollowsMessage /\ CountExact
        /\ Places /\ Reserved

-----------------------------------------------------------------------------
(* Cardinalities. *)

LEMMA FiniteInst == IsFiniteSet(Inst) /\ Cardinality(Inst) \in Nat
BY MoveBufferAssumption, FS_CardinalityType

LEMMA PartOfInst ==
    ASSUME NEW S, S \subseteq Inst
    PROVE  /\ IsFiniteSet(S) /\ Cardinality(S) \in Nat
           /\ Cardinality(S) <= Cardinality(Inst)
           /\ Cardinality(S) = 0 <=> S = {}
<1>1. IsFiniteSet(S) /\ Cardinality(S) <= Cardinality(Inst)
  BY FiniteInst, FS_Subset
<1>2. Cardinality(S) \in Nat
  BY <1>1, FS_CardinalityType
<1>3. Cardinality(S) = 0 <=> S = {}
  BY <1>1, FS_EmptySet
<1> QED BY <1>1, <1>2, <1>3

\* One instance joins or leaves a set of instances.
LEMMA JoinLeave ==
    ASSUME NEW S, S \subseteq Inst, NEW t \in Inst
    PROVE  /\ Cardinality(S \cup {t}) =
                 IF t \in S THEN Cardinality(S) ELSE Cardinality(S) + 1
           /\ Cardinality(S \ {t}) =
                 IF t \in S THEN Cardinality(S) - 1 ELSE Cardinality(S)
BY PartOfInst, FS_AddElement, FS_RemoveElement

LEMMA OneMember ==
    ASSUME NEW S, S \subseteq Inst, NEW t \in S, Cardinality(S) <= 1
    PROVE  S = {t} /\ Cardinality(S) = 1
<1>1. t \in Inst
  OBVIOUS
<1>2. Cardinality(S \ {t}) = Cardinality(S) - 1 /\ Cardinality(S) \in Nat
  BY <1>1, JoinLeave, PartOfInst
<1>3. Cardinality(S \ {t}) \in Nat /\ (Cardinality(S \ {t}) = 0 <=> S \ {t} = {})
  BY PartOfInst
<1>4. Cardinality(S \ {t}) = 0
  BY <1>2, <1>3
<1> QED BY <1>2, <1>3, <1>4

-----------------------------------------------------------------------------
(* Who refers to a message. *)

LEMMA ReferSets ==
    ASSUME NEW m
    PROVE  /\ Holders(m) \subseteq Inst /\ Holding(m) \subseteq Inst
           /\ Cardinality(Holders(m)) \in Nat /\ Cardinality(Holding(m)) \in Nat
           /\ Cardinality(Holders(m)) = 0 <=> Holders(m) = {}
           /\ Cardinality(Holding(m)) = 0 <=> Holding(m) = {}
<1>1. Holders(m) \subseteq Inst /\ Holding(m) \subseteq Inst
  BY DEF Holders, Holding
<1> QED BY <1>1, PartOfInst

\* A message without a reference is nowhere; one with a single reference that a
\* thread holds is with that thread only; one in a buffer is in no other, and
\* has a reference more than the threads hold.
LEMMA References ==
    ASSUME IInv, NEW m \in Msg
    PROVE  /\ refcnt[m] \in Nat
           /\ refcnt[m] = 0 => Holders(m) = {} /\ Holding(m) = {}
           /\ \A t \in Holders(m) :
                 /\ refcnt[m] > 0
                 /\ refcnt[m] = 1 => Holders(m) = {t} /\ Holding(m) = {}
           /\ \A b \in Holding(m) :
                 /\ Holding(m) = {b}
                 /\ refcnt[m] > 0
                 /\ Holders(m) # {} => refcnt[m] > 1
                 /\ refcnt[m] = 1 => Holders(m) = {}
<1> DEFINE x == Cardinality(Holders(m))
           y == Cardinality(Holding(m))
<1>1. /\ x \in Nat /\ y \in Nat
      /\ Holders(m) \subseteq Inst /\ Holding(m) \subseteq Inst
      /\ x = 0 <=> Holders(m) = {}
      /\ y = 0 <=> Holding(m) = {}
  BY ReferSets
<1>2. refcnt[m] = x + y /\ y <= 1 /\ refcnt[m] \in Nat
  BY DEF IInv, RefcntSound, TypeOK
<1>3. \A t \in Holders(m) : x <= 1 => Holders(m) = {t}
  BY <1>1, OneMember
<1>4. \A b \in Holding(m) : Holding(m) = {b}
  BY <1>1, <1>2, OneMember
<1> HIDE DEF x, y
<1> QED BY <1>1, <1>2, <1>3, <1>4

LEMMA HoldersGo ==
    ASSUME TypeOK, NEW t \in Inst, NEW p, NEW x, NEW b, Go(t, p, x, b), NEW m
    PROVE  Holders(m)' = IF m = x THEN Holders(m) \cup {t} ELSE Holders(m) \ {t}
BY DEF Holders, Go, TypeOK

LEMMA HoldingSet ==
    ASSUME TypeOK, NEW b \in Inst, NEW w, msgs' = [msgs EXCEPT ![b] = w], NEW m
    PROVE  Holding(m)' = IF m \in ToSet(w) THEN Holding(m) \cup {b}
                                          ELSE Holding(m) \ {b}
BY DEF Holding, TypeOK

LEMMA ExpectedGo ==
    ASSUME TypeOK, NEW t \in Inst, NEW p, NEW x, NEW b, Go(t, p, x, b), NEW c
    PROVE  Expected(c)' = IF p \in {"checked", "room"} /\ b = c
                          THEN Expected(c) \cup {t} ELSE Expected(c) \ {t}
BY DEF Expected, Go, TypeOK

LEMMA GoType ==
    ASSUME TypeOK, NEW t \in Inst, NEW p \in PCs, NEW x \in Msg \cup {None},
           NEW b \in Inst \cup {None}, Go(t, p, x, b)
    PROVE  /\ pc' \in [Inst -> PCs]
           /\ mine' \in [Inst -> Msg \cup {None}]
           /\ to' \in [Inst -> Inst \cup {None}]
           /\ pc'[t] = p /\ mine'[t] = x /\ to'[t] = b
           /\ \A u \in Inst \ {t} :
                 pc'[u] = pc[u] /\ mine'[u] = mine[u] /\ to'[u] = to[u]
BY DEF Go, TypeOK

-----------------------------------------------------------------------------
(* The places reserved in a buffer. *)

LEMMA ReservedKept ==
    ASSUME IInv, NEW t \in Inst, NEW p, NEW x, NEW b, Go(t, p, x, b),
           p \notin {"checked", "room"},
           \A c \in Inst : nr_msgs'[c] \in Nat /\ nr_msgs'[c] <= nr_msgs[c]
    PROVE  Reserved'
<1> SUFFICES ASSUME NEW c \in Inst
             PROVE  nr_msgs'[c] + Cardinality(Expected(c)')
                       <= MaxMsgs - 1 + Cardinality(Inst)
  BY DEF Reserved
<1>1. Expected(c)' = Expected(c) \ {t}
  BY ExpectedGo DEF IInv
<1>2. Expected(c) \subseteq Inst
  BY DEF Expected
<1> DEFINE e == Cardinality(Expected(c))
           f == Cardinality(Expected(c)')
           k == Cardinality(Inst)
<1>3. e \in Nat /\ f \in Nat /\ f <= e /\ k \in Nat
  <2>1. f = IF t \in Expected(c) THEN e - 1 ELSE e
    BY <1>1, <1>2, JoinLeave
  <2>2. e \in Nat /\ k \in Nat
    BY <1>2, PartOfInst, FiniteInst
  <2>3. f \in Nat
    <3>1. Expected(c) \ {t} \subseteq Inst
      BY <1>2
    <3> QED BY <1>1, <3>1, PartOfInst
  <2> HIDE DEF e, f, k
  <2> QED BY <2>1, <2>2, <2>3
<1>4. nr_msgs[c] + e <= MaxMsgs - 1 + k /\ nr_msgs[c] \in Nat /\ MaxMsgs \in Nat
  BY MoveBufferAssumption DEF IInv, Reserved, TypeOK
<1> HIDE DEF e, f, k
<1>5. nr_msgs'[c] + f <= MaxMsgs - 1 + k
  BY <1>3, <1>4
<1> QED BY <1>5 DEF f, k

LEMMA ReservedClaim ==
    ASSUME IInv, NEW t \in Inst, NEW p, NEW x, NEW b \in Inst, Go(t, p, x, b),
           Room(b), UNCHANGED nr_msgs
    PROVE  Reserved'
<1> SUFFICES ASSUME NEW c \in Inst
             PROVE  nr_msgs[c] + Cardinality(Expected(c)')
                       <= MaxMsgs - 1 + Cardinality(Inst)
  BY DEF Reserved
<1>1. Expected(c) \subseteq Inst /\ Expected(c)' \subseteq Inst
  <2>1. Expected(c) \subseteq Inst
    BY DEF Expected
  <2> QED BY <2>1, ExpectedGo DEF IInv
<1> DEFINE e == Cardinality(Expected(c))
           f == Cardinality(Expected(c)')
           k == Cardinality(Inst)
<1>2. e \in Nat /\ f \in Nat /\ f <= k /\ k \in Nat
  BY <1>1, PartOfInst, FiniteInst
<1>3. nr_msgs[c] + e <= MaxMsgs - 1 + k /\ nr_msgs[c] \in Nat /\ MaxMsgs \in Nat
  BY MoveBufferAssumption DEF IInv, Reserved, TypeOK
<1>4. c # b => f <= e
  <2> SUFFICES ASSUME c # b PROVE f <= e
    OBVIOUS
  <2>1. Expected(c)' = Expected(c) \ {t}
    BY ExpectedGo DEF IInv
  <2>2. f = IF t \in Expected(c) THEN e - 1 ELSE e
    BY <1>1, <2>1, JoinLeave
  <2> HIDE DEF e, f
  <2> QED BY <1>2, <2>2
<1>5. c = b => nr_msgs[c] <= MaxMsgs - 1
  BY <1>3 DEF Room
<1> HIDE DEF e, f, k
<1>6. nr_msgs[c] + f <= MaxMsgs - 1 + k
  BY <1>2, <1>3, <1>4, <1>5
<1> QED BY <1>6 DEF f, k

LEMMA ReservedAdd ==
    ASSUME IInv, NEW t \in Inst, pc[t] \in {"checked", "room"}, to[t] \in Inst,
           NEW m, AddTo(to[t], m),
           NEW p, NEW x, NEW b, Go(t, p, x, b), p \notin {"checked", "room"}
    PROVE  Reserved'
<1> SUFFICES ASSUME NEW c \in Inst
             PROVE  nr_msgs'[c] + Cardinality(Expected(c)')
                       <= MaxMsgs - 1 + Cardinality(Inst)
  BY DEF Reserved
<1>1. Expected(c)' = Expected(c) \ {t} /\ Expected(c) \subseteq Inst
  BY ExpectedGo DEF IInv, Expected
<1> DEFINE e == Cardinality(Expected(c))
           f == Cardinality(Expected(c)')
           k == Cardinality(Inst)
<1>2. /\ e \in Nat /\ f \in Nat /\ k \in Nat
      /\ f = IF t \in Expected(c) THEN e - 1 ELSE e
  <2>1. f = IF t \in Expected(c) THEN e - 1 ELSE e
    BY <1>1, JoinLeave
  <2>2. e \in Nat /\ k \in Nat
    BY <1>1, PartOfInst, FiniteInst
  <2>3. f \in Nat
    <3>1. Expected(c) \ {t} \subseteq Inst
      BY <1>1
    <3> QED BY <1>1, <3>1, PartOfInst
  <2> QED BY <2>1, <2>2, <2>3
<1>3. nr_msgs[c] + e <= MaxMsgs - 1 + k /\ nr_msgs[c] \in Nat /\ MaxMsgs \in Nat
  BY MoveBufferAssumption DEF IInv, Reserved, TypeOK
<1>4. nr_msgs'[c] = IF c = to[t] THEN nr_msgs[c] + 1 ELSE nr_msgs[c]
  BY DEF AddTo, IInv, TypeOK
<1>5. c = to[t] => t \in Expected(c)
  BY DEF Expected
<1> HIDE DEF e, f, k
<1>6. nr_msgs'[c] + f <= MaxMsgs - 1 + k
  BY <1>2, <1>3, <1>4, <1>5
<1> QED BY <1>6 DEF f, k

-----------------------------------------------------------------------------
(* What each kind of step does to the invariant. *)

LEMMA AtWork ==
    ASSUME IInv, NEW t \in Inst, pc[t] # "idle"
    PROVE  mine[t] \in Msg /\ t \in Holders(mine[t])
BY MoveBufferAssumption DEF IInv, Places, Place, TypeOK, Holders

LEMMA AtRest ==
    ASSUME IInv, NEW t \in Inst, pc[t] = "idle", NEW m \in Msg
    PROVE  mine[t] = None /\ None # m /\ t \notin Holders(m)
BY MoveBufferAssumption DEF IInv, Places, Place, Holders

\* A thread goes on with its message.
LEMMA GoOn ==
    ASSUME IInv, NEW t \in Inst, pc[t] \in {"looping", "room"},
           NEW p \in {"looping", "room", "unsent"}, NEW b,
           IF p = "unsent" THEN b = None ELSE b \in live,
           p = "room" => Room(b),
           Go(t, p, mine[t], b), UNCHANGED <<buffers, refcnt, heap>>
    PROVE  IInv'
<1>1. TypeOK /\ mine[t] \in Msg /\ p \in PCs /\ b \in Inst \cup {None}
  BY AtWork DEF IInv, TypeOK, PCs
<1>2. /\ pc' \in [Inst -> PCs] /\ mine' \in [Inst -> Msg \cup {None}]
      /\ to' \in [Inst -> Inst \cup {None}]
      /\ pc'[t] = p /\ mine'[t] = mine[t] /\ to'[t] = b
      /\ \A u \in Inst \ {t} :
            pc'[u] = pc[u] /\ mine'[u] = mine[u] /\ to'[u] = to[u]
  BY <1>1, GoType
<1>3. TypeOK'
  BY <1>1, <1>2 DEF TypeOK, buffers
<1>4. \A m : Holders(m)' = Holders(m) /\ Holding(m)' = Holding(m)
  BY <1>2 DEF Holders, Holding, buffers
<1>5. RefcntSound'
  BY <1>4 DEF IInv, RefcntSound, buffers
<1>6. HeapFollowsMessage'
  BY <1>2 DEF IInv, HeapFollowsMessage, buffers
<1>7. CountExact'
  BY DEF IInv, CountExact, buffers
<1>8. Places'
  <2> SUFFICES ASSUME NEW u \in Inst PROVE Place(u)'
    BY DEF Places
  <2>1. CASE u = t
    <3>1. mine[t] # None /\ refcnt[mine[t]] = 1
      BY DEF IInv, Places, Place
    <3> QED BY <1>2, <2>1, <3>1 DEF Place, buffers
  <2>2. CASE u # t
    BY <1>2, <1>4, <2>2 DEF IInv, Places, Place, buffers
  <2> QED BY <2>1, <2>2
<1>9. Reserved'
  <2>1. CASE p = "room"
    <3>1. b \in Inst /\ UNCHANGED nr_msgs
      BY <1>1, <2>1 DEF TypeOK, buffers
    <3> QED BY <2>1, <3>1, ReservedClaim
  <2>2. CASE p # "room"
    <3>1. p \notin {"checked", "room"}
      BY <2>2
    <3>2. \A c \in Inst : nr_msgs'[c] \in Nat /\ nr_msgs'[c] <= nr_msgs[c]
      BY <1>1 DEF TypeOK, buffers
    <3> QED BY <3>1, <3>2, ReservedKept
  <2> QED BY <2>1, <2>2
<1> QED BY <1>3, <1>5, <1>6, <1>7, <1>8, <1>9 DEF IInv

\* A thread allocates a message to send.
LEMMA Allocate ==
    ASSUME IInv, NEW t \in Inst, pc[t] = "idle", NEW m \in Msg, refcnt[m] = 0,
           refcnt' = [refcnt EXCEPT ![m] = 1], heap' = [heap EXCEPT ![m] = t],
           NEW p \in {"checked", "looping", "unsent"}, NEW b,
           IF p = "unsent" THEN b = None ELSE b \in live,
           p = "checked" => Room(b),
           Go(t, p, m, b), UNCHANGED buffers
    PROVE  IInv'
<1>1. TypeOK /\ p \in PCs /\ b \in Inst \cup {None} /\ m # None /\ t # None
  BY MoveBufferAssumption DEF IInv, TypeOK, PCs
<1>2. /\ pc' \in [Inst -> PCs] /\ mine' \in [Inst -> Msg \cup {None}]
      /\ to' \in [Inst -> Inst \cup {None}]
      /\ pc'[t] = p /\ mine'[t] = m /\ to'[t] = b
      /\ \A u \in Inst \ {t} :
            pc'[u] = pc[u] /\ mine'[u] = mine[u] /\ to'[u] = to[u]
  BY <1>1, GoType
<1>3. /\ \A n \in Msg : refcnt'[n] = IF n = m THEN 1 ELSE refcnt[n]
      /\ \A n \in Msg : heap'[n] = IF n = m THEN t ELSE heap[n]
  BY <1>1 DEF TypeOK
<1>4. TypeOK'
  BY <1>1, <1>2 DEF TypeOK, buffers
<1>5. Holders(m) = {} /\ Holding(m) = {}
  BY References
<1>6. /\ Holders(m)' = {t}
      /\ \A n \in Msg \ {m} : Holders(n)' = Holders(n)
  BY <1>1, <1>5, AtRest, HoldersGo
<1>7. \A n : Holding(n)' = Holding(n)
  BY DEF Holding, buffers
<1>8. RefcntSound'
  <2>1. Cardinality({t}) = 1 /\ Cardinality({}) = 0
    BY FS_Singleton, FS_EmptySet
  <2>2. \A n \in Msg : refcnt'[n] = Cardinality(Holders(n)') + Cardinality(Holding(n)')
    BY <1>3, <1>5, <1>6, <1>7, <2>1 DEF IInv, RefcntSound
  <2>3. \A n \in Msg : Cardinality(Holding(n)') <= 1
    BY <1>7 DEF IInv, RefcntSound
  <2> QED BY <2>2, <2>3 DEF IInv, RefcntSound, buffers
<1>9. HeapFollowsMessage'
  <2>1. ASSUME NEW c \in Inst, NEW n \in ToSet(msgs[c]) PROVE heap'[n] = MoveHeap
    <3>1. n \in Msg /\ c \in Holding(n)
      BY <1>1, Members DEF TypeOK, Holding
    <3> QED BY <1>3, <1>5, <3>1 DEF IInv, HeapFollowsMessage
  <2>2. ASSUME NEW u \in Inst, pc'[u] = "handling" PROVE heap'[mine'[u]] = u
    <3>1. u # t /\ pc[u] = "handling" /\ mine'[u] = mine[u]
      BY <1>2, <2>2
    <3>2. mine[u] \in Msg /\ mine[u] # m
      BY <1>5, <3>1, AtWork
    <3> QED BY <1>3, <3>1, <3>2 DEF IInv, HeapFollowsMessage
  <2>3. \A n \in Msg : refcnt'[n] = 0 <=> heap'[n] = None
    BY <1>1, <1>3 DEF IInv, HeapFollowsMessage
  <2> QED BY <2>1, <2>2, <2>3 DEF HeapFollowsMessage, buffers
<1>10. CountExact'
  BY DEF IInv, CountExact, buffers
<1>11. Places'
  <2> SUFFICES ASSUME NEW u \in Inst PROVE Place(u)'
    BY DEF Places
  <2>1. CASE u = t
    BY <1>1, <1>2, <1>3, <2>1 DEF Place, buffers
  <2>2. CASE u # t
    <3>1. pc'[u] = pc[u] /\ mine'[u] = mine[u] /\ to'[u] = to[u] /\ live' = live
      BY <1>2, <2>2 DEF buffers
    <3>2. pc[u] # "idle" => mine[u] \in Msg /\ mine[u] # m
      BY <1>5, AtWork
    <3>3. pc[u] # "idle" => refcnt'[mine[u]] = refcnt[mine[u]]
      BY <1>3, <3>2
    <3> QED BY <1>7, <3>1, <3>3 DEF IInv, Places, Place
  <2> QED BY <2>1, <2>2
<1>12. Reserved'
  <2>1. CASE p = "checked"
    <3>1. b \in Inst /\ UNCHANGED nr_msgs
      BY <1>1, <2>1 DEF TypeOK, buffers
    <3> QED BY <2>1, <3>1, ReservedClaim
  <2>2. CASE p # "checked"
    <3>1. p \notin {"checked", "room"}
      BY <2>2
    <3>2. \A c \in Inst : nr_msgs'[c] \in Nat /\ nr_msgs'[c] <= nr_msgs[c]
      BY <1>1 DEF TypeOK, buffers
    <3> QED BY <3>1, <3>2, ReservedKept
  <2> QED BY <2>1, <2>2
<1> QED BY <1>4, <1>8, <1>9, <1>10, <1>11, <1>12 DEF IInv

\* A message is added to a buffer.
\* m is added to buffer b.
Filled(f, g, b, m) ==
    \A c \in Inst : ToSet(g[c]) = IF c = b THEN ToSet(f[c]) \cup {m} ELSE ToSet(f[c])

LEMMA BufferAdd ==
    ASSUME TypeOK, CountExact, NEW b \in live, NEW m \in Msg, AddTo(b, m)
    PROVE  /\ msgs' \in [Inst -> Seq(Msg)] /\ nr_msgs' \in [Inst -> Nat]
           /\ live' = live /\ flag' = flag
           /\ Filled(msgs, msgs', b, m)
           /\ (\A c \in Inst : IsInjective(msgs[c])) /\ m \notin ToSet(msgs[b])
                 => \A c \in Inst : IsInjective(msgs'[c])
           /\ Holding(m)' = Holding(m) \cup {b}
           /\ \A n : n # m => Holding(n)' = Holding(n)
           /\ CountExact'
<1>1. b \in Inst /\ msgs[b] \in Seq(Msg) /\ nr_msgs[b] \in Nat
  BY DEF TypeOK
<1> DEFINE w == Append(msgs[b], m)
<1>2. /\ w \in Seq(Msg) /\ Len(w) = Len(msgs[b]) + 1
      /\ ToSet(w) = ToSet(msgs[b]) \cup {m}
      /\ IsInjective(msgs[b]) /\ m \notin ToSet(msgs[b]) => IsInjective(w)
  BY <1>1, AppendMembers
<1>3. /\ msgs' = [msgs EXCEPT ![b] = w]
      /\ nr_msgs' = [nr_msgs EXCEPT ![b] = nr_msgs[b] + 1]
      /\ live' = live /\ flag' = flag
  BY DEF AddTo
<1> HIDE DEF w
<1>4. msgs' \in [Inst -> Seq(Msg)] /\ nr_msgs' \in [Inst -> Nat]
  BY <1>1, <1>2, <1>3 DEF TypeOK
<1>5. \A c \in Inst : msgs'[c] = IF c = b THEN w ELSE msgs[c]
  BY <1>3 DEF TypeOK
<1>6. CountExact'
  <2>1. nr_msgs[b] = Len(msgs[b])
    BY <1>1 DEF CountExact
  <2> QED BY <1>1, <1>2, <1>3, <1>5, <2>1 DEF CountExact, TypeOK
<1>7. \A n : n \in ToSet(w) <=> n = m \/ b \in Holding(n)
  BY <1>1, <1>2 DEF Holding
<1>8. /\ Holding(m)' = Holding(m) \cup {b}
      /\ \A n : n # m => Holding(n)' = Holding(n)
  <2>1. \A n : Holding(n)' = IF n \in ToSet(w) THEN Holding(n) \cup {b}
                                              ELSE Holding(n) \ {b}
    BY <1>1, <1>3, HoldingSet
  <2>2. \A n : n # m => Holding(n)' = Holding(n)
    BY <1>7, <2>1
  <2> QED BY <1>7, <2>1, <2>2
<1>9. Filled(msgs, msgs', b, m)
  BY <1>2, <1>5 DEF Filled
<1>10. (\A c \in Inst : IsInjective(msgs[c])) /\ m \notin ToSet(msgs[b])
          => \A c \in Inst : IsInjective(msgs'[c])
  BY <1>1, <1>2, <1>5
<1> QED BY <1>3, <1>4, <1>6, <1>8, <1>9, <1>10

\* A sender moves its message into the buffer it stands at.
LEMMA MoveIn ==
    ASSUME IInv, NEW t \in Inst, pc[t] \in {"checked", "room"},
           NEW m, m = mine[t], NEW b, b = to[t],
           refcnt' = [refcnt EXCEPT ![m] = @ + 1],
           heap' = [heap EXCEPT ![m] = MoveHeap],
           AddTo(b, m), Go(t, "moved", m, None)
    PROVE  IInv'
<1>1. /\ TypeOK /\ m \in Msg /\ "moved" \in PCs /\ b \in live /\ b \in Inst
      /\ refcnt[m] = 1 /\ None \in Inst \cup {None} /\ m # None /\ MoveHeap # None
  BY AtWork, MoveBufferAssumption DEF IInv, TypeOK, PCs, Places, Place
<1>2. Holders(m) = {t} /\ Holding(m) = {}
  BY <1>1, AtWork, References
<1>3. /\ pc' \in [Inst -> PCs] /\ mine' \in [Inst -> Msg \cup {None}]
      /\ to' \in [Inst -> Inst \cup {None}]
      /\ pc'[t] = "moved" /\ mine'[t] = m /\ to'[t] = None
      /\ \A u \in Inst \ {t} :
            pc'[u] = pc[u] /\ mine'[u] = mine[u] /\ to'[u] = to[u]
  BY <1>1, GoType
<1>4. /\ msgs' \in [Inst -> Seq(Msg)] /\ nr_msgs' \in [Inst -> Nat]
      /\ live' = live /\ flag' = flag
      /\ \A c \in Inst : ToSet(msgs[c])' =
            IF c = b THEN ToSet(msgs[c]) \cup {m} ELSE ToSet(msgs[c])
      /\ Holding(m)' = {b}
      /\ \A n : n # m => Holding(n)' = Holding(n)
      /\ CountExact'
      /\ \A c \in Inst : IsInjective(msgs'[c])
  <2>1. m \notin ToSet(msgs[b]) /\ \A c \in Inst : IsInjective(msgs[c])
    BY <1>1, <1>2 DEF IInv, RefcntSound, Holding
  <2>2. Holding(m) \cup {b} = {b} /\ CountExact
    BY <1>2 DEF IInv
  <2>3. /\ msgs' \in [Inst -> Seq(Msg)] /\ nr_msgs' \in [Inst -> Nat]
        /\ live' = live /\ flag' = flag
        /\ \A c \in Inst : ToSet(msgs[c])' =
              IF c = b THEN ToSet(msgs[c]) \cup {m} ELSE ToSet(msgs[c])
        /\ Holding(m)' = Holding(m) \cup {b}
        /\ \A n : n # m => Holding(n)' = Holding(n)
        /\ CountExact'
    <3>1. TypeOK /\ CountExact /\ b \in live /\ m \in Msg /\ AddTo(b, m)
      BY <1>1, <2>2
    <3>2. msgs' \in [Inst -> Seq(Msg)] /\ nr_msgs' \in [Inst -> Nat]
      BY <3>1, BufferAdd
    <3>3. live' = live /\ flag' = flag /\ CountExact'
      BY <3>1, BufferAdd
    <3>4. Filled(msgs, msgs', b, m)
      BY <3>1, BufferAdd
    <3>5. Holding(m)' = Holding(m) \cup {b}
      BY <3>1, BufferAdd
    <3>6. \A n : n # m => Holding(n)' = Holding(n)
      BY <3>1, BufferAdd
    <3> QED BY <3>2, <3>3, <3>4, <3>5, <3>6 DEF Filled
  <2>4. \A c \in Inst : IsInjective(msgs'[c])
    BY <1>1, <2>1, <2>2, BufferAdd
  <2> QED BY <2>2, <2>3, <2>4
<1>5. /\ \A n \in Msg : refcnt'[n] = IF n = m THEN 2 ELSE refcnt[n]
      /\ \A n \in Msg : heap'[n] = IF n = m THEN MoveHeap ELSE heap[n]
      /\ refcnt' \in [Msg -> Nat] /\ heap' \in [Msg -> Inst \cup {MoveHeap, None}]
  BY <1>1 DEF TypeOK
<1>6. \A n : Holders(n)' = Holders(n)
  BY <1>3 DEF Holders
<1>7. TypeOK'
  BY <1>1, <1>3, <1>4, <1>5 DEF TypeOK
<1>8. RefcntSound'
  <2>1. Cardinality({t}) = 1 /\ Cardinality({b}) = 1
    BY FS_Singleton
  <2>2. \A n \in Msg : refcnt'[n] = Cardinality(Holders(n)') + Cardinality(Holding(n)')
    <3> SUFFICES ASSUME NEW n \in Msg
                 PROVE  refcnt'[n] = Cardinality(Holders(n)') + Cardinality(Holding(n)')
      OBVIOUS
    <3>1. CASE n = m
      <4>1. Holders(n)' = {t} /\ Holding(n)' = {b} /\ refcnt'[n] = 2
        BY <1>2, <1>4, <1>5, <1>6, <3>1
      <4> QED BY <2>1, <4>1
    <3>2. CASE n # m
      <4>1. Holders(n)' = Holders(n) /\ Holding(n)' = Holding(n) /\ refcnt'[n] = refcnt[n]
        BY <1>4, <1>5, <1>6, <3>2
      <4> QED BY <4>1 DEF IInv, RefcntSound
    <3> QED BY <3>1, <3>2
  <2>3. ASSUME NEW n \in Msg PROVE Cardinality(Holding(n)') <= 1
    <3>1. CASE n = m
      <4>1. Holding(n)' = {b}
        BY <1>4, <3>1
      <4> QED BY <2>1, <4>1
    <3>2. CASE n # m
      <4>1. Holding(n)' = Holding(n)
        BY <1>4, <3>2
      <4> QED BY <4>1 DEF IInv, RefcntSound
    <3> QED BY <3>1, <3>2
  <2> QED BY <1>4, <2>2, <2>3 DEF RefcntSound
<1>9. HeapFollowsMessage'
  <2>1. ASSUME NEW c \in Inst, NEW n \in ToSet(msgs[c])' PROVE heap'[n] = MoveHeap
    <3>1. msgs'[c] \in Seq(Msg)
      BY <1>4
    <3>2. n \in Msg
      BY <3>1, Members
    <3> QED BY <1>4, <1>5, <3>2, <2>1 DEF IInv, HeapFollowsMessage
  <2>2. ASSUME NEW u \in Inst, pc'[u] = "handling" PROVE heap'[mine'[u]] = u
    <3>1. u # t /\ pc[u] = "handling" /\ mine'[u] = mine[u]
      BY <1>3, <2>2
    <3>2. mine[u] \in Msg /\ mine[u] # m
      BY <1>2, <3>1, AtWork
    <3> QED BY <1>5, <3>1, <3>2 DEF IInv, HeapFollowsMessage
  <2>3. \A n \in Msg : refcnt'[n] = 0 <=> heap'[n] = None
    BY <1>1, <1>5 DEF IInv, HeapFollowsMessage
  <2> QED BY <2>1, <2>2, <2>3 DEF HeapFollowsMessage
<1>10. Places'
  <2> SUFFICES ASSUME NEW u \in Inst PROVE Place(u)'
    BY DEF Places
  <2>1. CASE u = t
    BY <1>1, <1>3, <2>1 DEF Place
  <2>2. CASE u # t
    <3>1. pc'[u] = pc[u] /\ mine'[u] = mine[u] /\ to'[u] = to[u] /\ live' = live
      BY <1>3, <1>4, <2>2
    <3>2. pc[u] # "idle" => mine[u] \in Msg /\ mine[u] # m
      BY <1>2, <2>2, AtWork
    <3>3. pc[u] # "idle" => /\ refcnt'[mine[u]] = refcnt[mine[u]]
                            /\ Holding(mine[u])' = Holding(mine[u])
      BY <1>4, <1>5, <3>1, <3>2
    <3> QED BY <3>1, <3>3 DEF IInv, Places, Place, Holding
  <2> QED BY <2>1, <2>2
<1>11. Reserved'
  BY <1>1, ReservedAdd
<1> QED BY <1>4, <1>7, <1>8, <1>9, <1>10, <1>11 DEF IInv

\* A broadcast moves a clone of its message into the buffer it stands at.
LEMMA CloneIn ==
    ASSUME IInv, NEW t \in Inst, pc[t] = "room", NEW b, b = to[t],
           NEW m \in Msg, refcnt[m] = 0,
           refcnt' = [refcnt EXCEPT ![m] = 1],
           heap' = [heap EXCEPT ![m] = MoveHeap],
           AddTo(b, m), NEW c \in live, Go(t, "looping", mine[t], c)
    PROVE  IInv'
<1>1. /\ TypeOK /\ "looping" \in PCs /\ b \in live /\ b \in Inst /\ c \in Inst
      /\ mine[t] \in Msg /\ MoveHeap # None
  BY AtWork, MoveBufferAssumption DEF IInv, TypeOK, PCs, Places, Place
<1>2. Holders(m) = {} /\ Holding(m) = {}
  BY <1>1, References
<1>3. /\ pc' \in [Inst -> PCs] /\ mine' \in [Inst -> Msg \cup {None}]
      /\ to' \in [Inst -> Inst \cup {None}]
      /\ pc'[t] = "looping" /\ mine'[t] = mine[t] /\ to'[t] = c
      /\ \A u \in Inst \ {t} :
            pc'[u] = pc[u] /\ mine'[u] = mine[u] /\ to'[u] = to[u]
  BY <1>1, GoType
<1>4. /\ msgs' \in [Inst -> Seq(Msg)] /\ nr_msgs' \in [Inst -> Nat]
      /\ live' = live /\ flag' = flag
      /\ \A d \in Inst : ToSet(msgs[d])' =
            IF d = b THEN ToSet(msgs[d]) \cup {m} ELSE ToSet(msgs[d])
      /\ Holding(m)' = {b}
      /\ \A n : n # m => Holding(n)' = Holding(n)
      /\ CountExact'
      /\ \A d \in Inst : IsInjective(msgs'[d])
  <2>1. m \notin ToSet(msgs[b]) /\ \A d \in Inst : IsInjective(msgs[d])
    BY <1>1, <1>2 DEF IInv, RefcntSound, Holding
  <2>2. Holding(m) \cup {b} = {b} /\ CountExact
    BY <1>2 DEF IInv
  <2>3. /\ msgs' \in [Inst -> Seq(Msg)] /\ nr_msgs' \in [Inst -> Nat]
        /\ live' = live /\ flag' = flag
        /\ \A d \in Inst : ToSet(msgs[d])' =
              IF d = b THEN ToSet(msgs[d]) \cup {m} ELSE ToSet(msgs[d])
        /\ Holding(m)' = Holding(m) \cup {b}
        /\ \A n : n # m => Holding(n)' = Holding(n)
        /\ CountExact'
    <3>1. TypeOK /\ CountExact /\ b \in live /\ m \in Msg /\ AddTo(b, m)
      BY <1>1, <2>2
    <3>2. msgs' \in [Inst -> Seq(Msg)] /\ nr_msgs' \in [Inst -> Nat]
      BY <3>1, BufferAdd
    <3>3. live' = live /\ flag' = flag /\ CountExact'
      BY <3>1, BufferAdd
    <3>4. Filled(msgs, msgs', b, m)
      BY <3>1, BufferAdd
    <3>5. Holding(m)' = Holding(m) \cup {b}
      BY <3>1, BufferAdd
    <3>6. \A n : n # m => Holding(n)' = Holding(n)
      BY <3>1, BufferAdd
    <3> QED BY <3>2, <3>3, <3>4, <3>5, <3>6 DEF Filled
  <2>4. \A d \in Inst : IsInjective(msgs'[d])
    BY <1>1, <2>1, <2>2, BufferAdd
  <2> QED BY <2>2, <2>3, <2>4
<1>5. /\ \A n \in Msg : refcnt'[n] = IF n = m THEN 1 ELSE refcnt[n]
      /\ \A n \in Msg : heap'[n] = IF n = m THEN MoveHeap ELSE heap[n]
      /\ refcnt' \in [Msg -> Nat] /\ heap' \in [Msg -> Inst \cup {MoveHeap, None}]
  BY <1>1 DEF TypeOK
<1>6. \A n : Holders(n)' = Holders(n)
  BY <1>3 DEF Holders
<1>7. TypeOK'
  BY <1>1, <1>3, <1>4, <1>5 DEF TypeOK
<1>8. RefcntSound'
  <2>1. Cardinality({}) = 0 /\ Cardinality({b}) = 1
    BY FS_Singleton, FS_EmptySet
  <2>2. ASSUME NEW n \in Msg
        PROVE  /\ refcnt'[n] = Cardinality(Holders(n)') + Cardinality(Holding(n)')
               /\ Cardinality(Holding(n)') <= 1
    <3>1. CASE n = m
      <4>1. Holders(n)' = {} /\ Holding(n)' = {b} /\ refcnt'[n] = 1
        BY <1>2, <1>4, <1>5, <1>6, <3>1
      <4> QED BY <2>1, <4>1
    <3>2. CASE n # m
      <4>1. Holders(n)' = Holders(n) /\ Holding(n)' = Holding(n) /\ refcnt'[n] = refcnt[n]
        BY <1>4, <1>5, <1>6, <3>2
      <4> QED BY <4>1 DEF IInv, RefcntSound
    <3> QED BY <3>1, <3>2
  <2> QED BY <1>4, <2>2 DEF RefcntSound
<1>9. \A u \in Inst : pc[u] # "idle" => mine[u] \in Msg /\ mine[u] # m
  BY <1>2, AtWork
<1>10. HeapFollowsMessage'
  <2>1. ASSUME NEW d \in Inst, NEW n \in ToSet(msgs[d])' PROVE heap'[n] = MoveHeap
    <3>1. msgs'[d] \in Seq(Msg)
      BY <1>4
    <3>2. n \in Msg
      BY <3>1, Members
    <3> QED BY <1>4, <1>5, <3>2, <2>1 DEF IInv, HeapFollowsMessage
  <2>2. ASSUME NEW u \in Inst, pc'[u] = "handling" PROVE heap'[mine'[u]] = u
    <3>1. u # t /\ pc[u] = "handling" /\ mine'[u] = mine[u]
      BY <1>3, <2>2
    <3> QED BY <1>5, <1>9, <3>1 DEF IInv, HeapFollowsMessage
  <2>3. \A n \in Msg : refcnt'[n] = 0 <=> heap'[n] = None
    BY <1>1, <1>5 DEF IInv, HeapFollowsMessage
  <2> QED BY <2>1, <2>2, <2>3 DEF HeapFollowsMessage
<1>11. Places'
  <2> SUFFICES ASSUME NEW u \in Inst PROVE Place(u)'
    BY DEF Places
  <2>1. Place(u) /\ live' = live /\ mine'[u] = mine[u]
    BY <1>3, <1>4 DEF IInv, Places
  <2>2. pc[u] # "idle" => /\ refcnt'[mine[u]] = refcnt[mine[u]]
                          /\ Holding(mine[u])' = Holding(mine[u])
    BY <1>4, <1>5, <1>9, <2>1
  <2>3. CASE u = t
    BY <1>3, <2>1, <2>2, <2>3 DEF Place
  <2>4. CASE u # t
    <3>1. pc'[u] = pc[u] /\ to'[u] = to[u]
      BY <1>3, <2>4
    <3> QED BY <2>1, <2>2, <3>1 DEF Place, Holding
  <2> QED BY <2>3, <2>4
<1>12. Reserved'
  BY <1>1, ReservedAdd
<1> QED BY <1>4, <1>7, <1>8, <1>10, <1>11, <1>12 DEF IInv

\* A thread drops the reference it works with.
LEMMA Drop ==
    ASSUME IInv, NEW t \in Inst, pc[t] # "idle", NEW m, m = mine[t],
           Put(m), Go(t, "idle", None, None), UNCHANGED buffers
    PROVE  IInv'
<1>1. /\ TypeOK /\ m \in Msg /\ "idle" \in PCs /\ m # None
      /\ t \in Holders(m) /\ MoveHeap # None
  <2>1. mine[t] \in Msg /\ t \in Holders(mine[t])
    BY AtWork
  <2>2. m \in Msg /\ t \in Holders(m)
    BY <2>1
  <2> QED BY <2>2, MoveBufferAssumption DEF IInv, PCs
<1>2. /\ refcnt[m] > 0 /\ refcnt[m] \in Nat
      /\ refcnt[m] = 1 => Holders(m) = {t} /\ Holding(m) = {}
  BY <1>1, References
<1>3. /\ pc' \in [Inst -> PCs] /\ mine' \in [Inst -> Msg \cup {None}]
      /\ to' \in [Inst -> Inst \cup {None}]
      /\ pc'[t] = "idle" /\ mine'[t] = None /\ to'[t] = None
      /\ \A u \in Inst \ {t} :
            pc'[u] = pc[u] /\ mine'[u] = mine[u] /\ to'[u] = to[u]
  BY <1>1, GoType
<1>4. /\ \A n \in Msg : refcnt'[n] = IF n = m THEN refcnt[m] - 1 ELSE refcnt[n]
      /\ \A n \in Msg : heap'[n] = IF n = m /\ refcnt[m] = 1 THEN None ELSE heap[n]
      /\ refcnt' \in [Msg -> Nat] /\ heap' \in [Msg -> Inst \cup {MoveHeap, None}]
  BY <1>1, <1>2 DEF TypeOK, Put
<1>5. /\ Holders(m)' = Holders(m) \ {t}
      /\ \A n \in Msg \ {m} : Holders(n)' = Holders(n)
  <2>1. \A n \in Msg : Holders(n)' = Holders(n) \ {t}
    BY <1>1, HoldersGo, MoveBufferAssumption
  <2>2. \A n \in Msg \ {m} : t \notin Holders(n)
    BY DEF Holders
  <2> QED BY <1>1, <2>1, <2>2
<1>6. \A n : Holding(n)' = Holding(n)
  BY DEF Holding, buffers
<1>7. TypeOK'
  BY <1>1, <1>3, <1>4 DEF TypeOK, buffers
<1>8. RefcntSound'
  <2>1. ASSUME NEW n \in Msg
        PROVE  refcnt'[n] = Cardinality(Holders(n)') + Cardinality(Holding(n)')
    <3>1. CASE n = m
      <4> DEFINE x == Cardinality(Holders(m))
                 y == Cardinality(Holding(m))
      <4>1. Cardinality(Holders(m)') = x - 1
        BY <1>1, <1>5, ReferSets, JoinLeave
      <4>2. refcnt[m] = x + y /\ x \in Nat /\ y \in Nat
        BY <1>1, ReferSets DEF IInv, RefcntSound
      <4>3. Cardinality(Holding(m)') = y /\ refcnt'[m] = refcnt[m] - 1
        BY <1>1, <1>4, <1>6
      <4> HIDE DEF x, y
      <4>4. refcnt'[m] = (x - 1) + y
        BY <4>2, <4>3
      <4> QED BY <3>1, <4>1, <4>3, <4>4
    <3>2. CASE n # m
      <4>1. Holders(n)' = Holders(n) /\ Holding(n)' = Holding(n) /\ refcnt'[n] = refcnt[n]
        BY <1>4, <1>5, <1>6, <3>2
      <4> QED BY <4>1 DEF IInv, RefcntSound
    <3> QED BY <3>1, <3>2
  <2>2. \A n \in Msg : Cardinality(Holding(n)') <= 1
    BY <1>6 DEF IInv, RefcntSound
  <2> QED BY <2>1, <2>2 DEF IInv, RefcntSound, buffers
<1>9. \A u \in Inst \ {t} :
         pc[u] # "idle" => mine[u] \in Msg /\ (mine[u] = m => refcnt[m] # 1)
  BY <1>2, AtWork
<1>10. HeapFollowsMessage'
  <2>1. ASSUME NEW d \in Inst, NEW n \in ToSet(msgs[d]) PROVE heap'[n] = MoveHeap
    <3>1. n \in Msg /\ d \in Holding(n)
      BY <1>1, Members DEF TypeOK, Holding
    <3> QED BY <1>2, <1>4, <3>1 DEF IInv, HeapFollowsMessage
  <2>2. ASSUME NEW u \in Inst, pc'[u] = "handling" PROVE heap'[mine'[u]] = u
    <3>1. u # t /\ pc[u] = "handling" /\ mine'[u] = mine[u]
      BY <1>3, <2>2
    <3> QED BY <1>4, <1>9, <3>1 DEF IInv, HeapFollowsMessage
  <2>3. \A n \in Msg : refcnt'[n] = 0 <=> heap'[n] = None
    BY <1>1, <1>2, <1>4 DEF IInv, HeapFollowsMessage
  <2> QED BY <2>1, <2>2, <2>3 DEF HeapFollowsMessage, buffers
<1>11. CountExact'
  BY DEF IInv, CountExact, buffers
<1>12. Places'
  <2> SUFFICES ASSUME NEW u \in Inst PROVE Place(u)'
    BY DEF Places
  <2>1. CASE u = t
    BY <1>3, <2>1 DEF Place
  <2>2. CASE u # t
    <3>1. /\ pc'[u] = pc[u] /\ mine'[u] = mine[u] /\ to'[u] = to[u] /\ live' = live
          /\ Place(u)
      BY <1>3, <2>2 DEF buffers, IInv, Places
    <3>2. pc[u] # "idle" /\ refcnt[mine[u]] = 1 => refcnt'[mine[u]] = 1
      BY <1>4, <1>9, <2>2
    <3> QED BY <1>6, <3>1, <3>2 DEF Place
  <2> QED BY <2>1, <2>2
<1>13. Reserved'
  <2>1. \A c \in Inst : nr_msgs'[c] \in Nat /\ nr_msgs'[c] <= nr_msgs[c]
    BY <1>1 DEF TypeOK, buffers
  <2>2. "idle" \notin {"checked", "room"}
    OBVIOUS
  <2> QED BY <2>1, <2>2, ReservedKept
<1> QED BY <1>7, <1>8, <1>10, <1>11, <1>12, <1>13 DEF IInv

\* A receiver takes the first message of its buffer.
LEMMA Take ==
    ASSUME IInv, NEW t \in Inst, purc_inst_take_away_message(t)
    PROVE  IInv'
<1> DEFINE w == msgs[t]
           r == Tail(w)
<1>1. /\ TypeOK /\ "handling" \in PCs /\ None \in Inst \cup {None}
      /\ pc[t] = "idle" /\ t \in live /\ w \in Seq(Msg) /\ nr_msgs[t] \in Nat
      /\ MoveHeap # t /\ t # None
  BY MoveBufferAssumption DEF IInv, TypeOK, PCs, purc_inst_take_away_message
<1>2. w # <<>> /\ IsInjective(w) /\ nr_msgs[t] = Len(w)
  <2>1. nr_msgs[t] = Len(w) /\ nr_msgs[t] > 0 /\ IsInjective(w)
    BY DEF IInv, CountExact, RefcntSound, purc_inst_take_away_message
  <2> QED BY <2>1
<1>3. PICK m : m = Head(w)
  OBVIOUS
<1>4. /\ m \in Msg /\ r \in Seq(Msg) /\ Len(w) \in Nat \ {0}
      /\ Len(r) = Len(w) - 1 /\ m \in ToSet(w)
      /\ ToSet(r) = ToSet(w) \ {m} /\ IsInjective(r)
  BY <1>1, <1>2, <1>3, TailMembers
<1>5. /\ msgs' = [msgs EXCEPT ![t] = r]
      /\ nr_msgs' = [nr_msgs EXCEPT ![t] = nr_msgs[t] - 1]
      /\ heap' = [heap EXCEPT ![m] = t]
      /\ Go(t, "handling", m, None)
      /\ UNCHANGED <<live, flag, refcnt>>
  BY <1>3 DEF purc_inst_take_away_message
<1> HIDE DEF r
<1>6. /\ \A c \in Inst : msgs'[c] = IF c = t THEN r ELSE msgs[c]
      /\ msgs' \in [Inst -> Seq(Msg)]
      /\ \A c \in Inst : nr_msgs'[c] = IF c = t THEN nr_msgs[t] - 1 ELSE nr_msgs[c]
      /\ nr_msgs' \in [Inst -> Nat]
      /\ \A n \in Msg : heap'[n] = IF n = m THEN t ELSE heap[n]
      /\ heap' \in [Msg -> Inst \cup {MoveHeap, None}]
  BY <1>1, <1>2, <1>4, <1>5 DEF TypeOK
<1>7. t \in Holding(m) /\ Holding(m) = {t} /\ refcnt[m] > 0 /\ m # None
  <2>1. t \in Holding(m)
    BY <1>4 DEF Holding
  <2> QED BY <1>4, <2>1, References, MoveBufferAssumption
<1>8. /\ pc' \in [Inst -> PCs] /\ mine' \in [Inst -> Msg \cup {None}]
      /\ to' \in [Inst -> Inst \cup {None}]
      /\ pc'[t] = "handling" /\ mine'[t] = m /\ to'[t] = None
      /\ \A u \in Inst \ {t} :
            pc'[u] = pc[u] /\ mine'[u] = mine[u] /\ to'[u] = to[u]
  BY <1>1, <1>4, <1>5, GoType
<1>9. /\ Holders(m)' = Holders(m) \cup {t} /\ t \notin Holders(m)
      /\ \A n \in Msg \ {m} : Holders(n)' = Holders(n)
  BY <1>1, <1>4, <1>8, AtRest DEF Holders
<1>10. Holding(m)' = {} /\ \A n : n # m => Holding(n)' = Holding(n)
  <2>1. \A n : Holding(n)' = IF n \in ToSet(r) THEN Holding(n) \cup {t}
                                              ELSE Holding(n) \ {t}
    BY <1>1, <1>5, HoldingSet
  <2>2. \A n : n # m => (n \in ToSet(r) <=> t \in Holding(n))
    BY <1>4 DEF Holding
  <2>3. m \notin ToSet(r)
    BY <1>4
  <2>4. Holding(m)' = {}
    BY <1>7, <2>1, <2>3
  <2> QED BY <2>1, <2>2, <2>4
<1>11. TypeOK'
  BY <1>1, <1>5, <1>6, <1>8 DEF TypeOK
<1>12. RefcntSound'
  <2>1. ASSUME NEW n \in Msg
        PROVE  /\ refcnt'[n] = Cardinality(Holders(n)') + Cardinality(Holding(n)')
               /\ Cardinality(Holding(n)') <= 1
    <3>1. CASE n = m
      <4> DEFINE x == Cardinality(Holders(m))
      <4>1. Cardinality(Holders(m)') = x + 1
        BY <1>1, <1>9, ReferSets, JoinLeave
      <4>2. Cardinality({t}) = 1 /\ Cardinality({}) = 0
        BY FS_Singleton, FS_EmptySet
      <4>3. Cardinality(Holding(m)') = 0
        BY <1>10, <4>2
      <4>4. refcnt[m] = x + 1 /\ x \in Nat
        BY <1>4, <1>7, <4>2, ReferSets DEF IInv, RefcntSound
      <4>5. refcnt' = refcnt
        BY <1>5
      <4> HIDE DEF x
      <4> QED BY <3>1, <4>1, <4>3, <4>4, <4>5
    <3>2. CASE n # m
      <4>1. Holders(n)' = Holders(n) /\ Holding(n)' = Holding(n) /\ refcnt' = refcnt
        BY <1>5, <1>9, <1>10, <3>2
      <4> QED BY <4>1 DEF IInv, RefcntSound
    <3> QED BY <3>1, <3>2
  <2>2. \A d \in Inst : IsInjective(msgs'[d])
    BY <1>4, <1>6 DEF IInv, RefcntSound
  <2> QED BY <2>1, <2>2 DEF RefcntSound
<1>13. HeapFollowsMessage'
  <2>1. ASSUME NEW d \in Inst, NEW n \in ToSet(msgs[d])' PROVE heap'[n] = MoveHeap
    <3>1. msgs'[d] \in Seq(Msg)
      BY <1>6
    <3>2. n \in Msg
      BY <3>1, Members
    <3>3. n \in ToSet(msgs[d]) /\ n # m
      BY <1>4, <1>6, <1>7, <2>1 DEF Holding
    <3> QED BY <1>6, <3>2, <3>3 DEF IInv, HeapFollowsMessage
  <2>2. ASSUME NEW u \in Inst, pc'[u] = "handling" PROVE heap'[mine'[u]] = u
    <3>1. CASE u = t
      BY <1>4, <1>6, <1>8, <3>1
    <3>2. CASE u # t
      <4>1. pc[u] = "handling" /\ mine'[u] = mine[u]
        BY <1>8, <2>2, <3>2
      <4>2. mine[u] \in Msg /\ Holding(mine[u]) = {}
        BY <4>1, AtWork DEF IInv, Places, Place
      <4>3. mine[u] # m
        BY <1>7, <4>2
      <4> QED BY <1>6, <4>1, <4>2, <4>3 DEF IInv, HeapFollowsMessage
    <3> QED BY <3>1, <3>2
  <2>3. \A n \in Msg : refcnt'[n] = 0 <=> heap'[n] = None
    BY <1>1, <1>5, <1>6, <1>7 DEF IInv, HeapFollowsMessage
  <2> QED BY <2>1, <2>2, <2>3 DEF HeapFollowsMessage
<1>14. CountExact'
  BY <1>1, <1>2, <1>4, <1>5, <1>6 DEF IInv, CountExact
<1>15. Places'
  <2> SUFFICES ASSUME NEW u \in Inst PROVE Place(u)'
    BY DEF Places
  <2>1. CASE u = t
    <3>1. Holding(mine[t])' = {}
      BY <1>8, <1>10 DEF Holding
    <3> QED BY <1>7, <1>8, <2>1, <3>1 DEF Place
  <2>2. CASE u # t
    <3>1. /\ pc'[u] = pc[u] /\ mine'[u] = mine[u] /\ to'[u] = to[u]
          /\ live' = live /\ refcnt' = refcnt /\ Place(u)
      BY <1>5, <1>8, <2>2 DEF IInv, Places
    <3>2. pc[u] = "handling" => Holding(mine[u])' = {}
      BY <1>10, <3>1 DEF Place
    <3> QED BY <3>1, <3>2 DEF Place
  <2> QED BY <2>1, <2>2
<1>16. Reserved'
  <2>1. ASSUME NEW c \in Inst PROVE nr_msgs'[c] \in Nat /\ nr_msgs'[c] <= nr_msgs[c]
    <3>1. nr_msgs[c] \in Nat /\ nr_msgs'[c] \in Nat
      BY <1>1, <1>6 DEF TypeOK
    <3>2. nr_msgs'[c] = IF c = t THEN nr_msgs[t] - 1 ELSE nr_msgs[c]
      BY <1>6
    <3> QED BY <3>1, <3>2
  <2>2. "handling" \notin {"checked", "room"}
    OBVIOUS
  <2> QED BY <1>5, <2>1, <2>2, ReservedKept
<1> QED BY <1>11, <1>12, <1>13, <1>14, <1>15, <1>16 DEF IInv

\* A step that moves no thread and fills no buffer keeps the places.
LEMMA ReservedStill ==
    ASSUME IInv, UNCHANGED <<pc, to>>, nr_msgs' \in [Inst -> Nat],
           \A c \in Inst : nr_msgs'[c] <= nr_msgs[c]
    PROVE  Reserved'
<1> SUFFICES ASSUME NEW c \in Inst
             PROVE  nr_msgs'[c] + Cardinality(Expected(c)')
                       <= MaxMsgs - 1 + Cardinality(Inst)
  BY DEF Reserved
<1>1. Expected(c)' = Expected(c) /\ Expected(c) \subseteq Inst
  BY DEF Expected
<1> DEFINE e == Cardinality(Expected(c))
           k == Cardinality(Inst)
<1>2. e \in Nat /\ k \in Nat /\ Cardinality(Expected(c)') = e
  BY <1>1, PartOfInst, FiniteInst
<1>3. /\ nr_msgs[c] + e <= MaxMsgs - 1 + k /\ nr_msgs[c] \in Nat /\ MaxMsgs \in Nat
      /\ nr_msgs'[c] \in Nat /\ nr_msgs'[c] <= nr_msgs[c]
  BY MoveBufferAssumption DEF IInv, Reserved, TypeOK
<1> HIDE DEF e, k
<1>4. nr_msgs'[c] + e <= MaxMsgs - 1 + k
  BY <1>2, <1>3
<1> QED BY <1>2, <1>4 DEF k

\* A buffer that is not in the map is empty: a new one starts as it was left.
LEMMA Create ==
    ASSUME IInv, NEW t \in Inst, NEW f \in BOOLEAN,
           purc_inst_create_move_buffer(t, f)
    PROVE  IInv'
<1>1. /\ TypeOK /\ t \notin live /\ live' = live \cup {t}
      /\ flag' = [flag EXCEPT ![t] = f]
      /\ UNCHANGED <<refcnt, heap, pc, mine, to>>
  BY DEF IInv, purc_inst_create_move_buffer
<1>2. msgs[t] = <<>> /\ nr_msgs[t] = 0
  <2>1. msgs[t] = <<>> /\ nr_msgs[t] = Len(msgs[t])
    BY <1>1 DEF IInv, CountExact
  <2> QED BY <2>1
<1>3. msgs' = msgs /\ nr_msgs' = nr_msgs
  BY <1>1, <1>2 DEF TypeOK, purc_inst_create_move_buffer
<1>4. \A n : Holders(n)' = Holders(n) /\ Holding(n)' = Holding(n)
  BY <1>1, <1>3 DEF Holders, Holding
<1>5. TypeOK'
  BY <1>1, <1>3 DEF TypeOK
<1>6. RefcntSound' /\ HeapFollowsMessage' /\ CountExact'
  BY <1>1, <1>3, <1>4 DEF IInv, RefcntSound, HeapFollowsMessage, CountExact
<1>7. Places'
  <2> SUFFICES ASSUME NEW u \in Inst PROVE Place(u)'
    BY DEF Places
  <2>1. Place(u) /\ live \subseteq live'
    BY <1>1 DEF IInv, Places
  <2> QED BY <1>1, <1>3, <2>1 DEF Place, Holding
<1>8. Reserved'
  <2>1. nr_msgs' \in [Inst -> Nat] /\ \A c \in Inst : nr_msgs'[c] <= nr_msgs[c]
    BY <1>1, <1>3 DEF TypeOK
  <2> QED BY <1>1, <2>1, ReservedStill
<1> QED BY <1>5, <1>6, <1>7, <1>8 DEF IInv

\* A buffer is destroyed while nobody has mb_lock read-locked: the messages
\* left in it lose one reference, and those that nobody holds are freed.
LEMMA Destroy ==
    ASSUME IInv, NEW t \in Inst, purc_inst_destroy_move_buffer(t)
    PROVE  IInv'
<1> DEFINE ground == ToSet(msgs[t])
<1>1. /\ TypeOK /\ Readers = {} /\ t \in live /\ live' = live \ {t}
      /\ refcnt' = [m \in Msg |-> IF m \in ground THEN refcnt[m] - 1 ELSE refcnt[m]]
      /\ heap' = [m \in Msg |->
                     IF m \in ground /\ refcnt[m] = 1 THEN None ELSE heap[m]]
      /\ msgs' = [msgs EXCEPT ![t] = <<>>]
      /\ nr_msgs' = [nr_msgs EXCEPT ![t] = 0]
      /\ UNCHANGED <<flag, pc, mine, to>>
  BY DEF IInv, purc_inst_destroy_move_buffer, WriterLock
<1>2. ASSUME NEW m \in Msg, m \in ground
      PROVE  /\ t \in Holding(m) /\ Holding(m) = {t} /\ refcnt[m] > 0
             /\ Holders(m) # {} => refcnt[m] > 1
             /\ refcnt[m] = Cardinality(Holders(m)) + 1
  <2>1. t \in Holding(m)
    BY <1>2 DEF Holding
  <2>2. Holding(m) = {t} /\ refcnt[m] > 0 /\ (Holders(m) # {} => refcnt[m] > 1)
    BY <2>1, References
  <2>3. Cardinality({t}) = 1
    BY FS_Singleton
  <2>4. refcnt[m] = Cardinality(Holders(m)) + Cardinality(Holding(m))
    BY DEF IInv, RefcntSound
  <2> QED BY <2>1, <2>2, <2>3, <2>4
<1>3. ASSUME NEW m \in Msg, m \notin ground
      PROVE  t \notin Holding(m)
  BY <1>3 DEF Holding
<1>4. \A m \in Msg : refcnt[m] \in Nat
  BY <1>1 DEF TypeOK
<1>5. /\ \A m \in Msg : refcnt'[m] = IF m \in ground THEN refcnt[m] - 1 ELSE refcnt[m]
      /\ \A m \in Msg : heap'[m] =
            IF m \in ground /\ refcnt[m] = 1 THEN None ELSE heap[m]
  BY <1>1
<1>6. refcnt' \in [Msg -> Nat] /\ heap' \in [Msg -> Inst \cup {MoveHeap, None}]
  <2>1. \A m \in Msg : (IF m \in ground THEN refcnt[m] - 1 ELSE refcnt[m]) \in Nat
    BY <1>2, <1>4
  <2> QED BY <1>1, <2>1 DEF TypeOK
<1> HIDE DEF ground
<1>7. \A n : Holders(n)' = Holders(n)
  BY <1>1 DEF Holders
<1>8. \A n : Holding(n)' = Holding(n) \ {t}
  <2>1. ToSet(<<>>) = {}
    BY EmptyMembers
  <2> QED BY <1>1, <2>1, HoldingSet
<1>9. /\ \A c \in Inst : msgs'[c] = IF c = t THEN <<>> ELSE msgs[c]
      /\ \A c \in Inst : nr_msgs'[c] = IF c = t THEN 0 ELSE nr_msgs[c]
      /\ msgs' \in [Inst -> Seq(Msg)] /\ nr_msgs' \in [Inst -> Nat]
  <2>1. <<>> \in Seq(Msg)
    OBVIOUS
  <2> QED BY <1>1, <2>1 DEF TypeOK
<1>10. TypeOK'
  BY <1>1, <1>6, <1>9 DEF TypeOK
<1>11. RefcntSound'
  <2>1. ASSUME NEW n \in Msg
        PROVE  /\ refcnt'[n] = Cardinality(Holders(n)') + Cardinality(Holding(n)')
               /\ Cardinality(Holding(n)') <= 1
    <3>1. CASE n \in ground
      <4>1. Holding(n)' = {} /\ Cardinality({}) = 0
        BY <1>2, <1>8, <3>1, FS_EmptySet
      <4>2. Cardinality(Holding(n)') = 0
        BY <4>1
      <4> DEFINE x == Cardinality(Holders(n))
      <4>3. Cardinality(Holders(n)') = x /\ x \in Nat
        BY <1>7, ReferSets
      <4>4. refcnt'[n] = refcnt[n] - 1 /\ refcnt[n] = x + 1
        BY <1>2, <1>5, <3>1
      <4> HIDE DEF x
      <4> QED BY <4>2, <4>3, <4>4
    <3>2. CASE n \notin ground
      <4>1. Holders(n)' = Holders(n) /\ Holding(n)' = Holding(n) /\ refcnt'[n] = refcnt[n]
        BY <1>3, <1>5, <1>7, <1>8, <3>2
      <4> QED BY <4>1 DEF IInv, RefcntSound
    <3> QED BY <3>1, <3>2
  <2>2. \A d \in Inst : IsInjective(msgs'[d])
    BY <1>9, EmptyMembers DEF IInv, RefcntSound
  <2> QED BY <2>1, <2>2 DEF RefcntSound
<1>12. HeapFollowsMessage'
  <2>1. ASSUME NEW d \in Inst, NEW n \in ToSet(msgs[d])' PROVE heap'[n] = MoveHeap
    <3>1. msgs'[d] \in Seq(Msg)
      BY <1>9
    <3>2. n \in Msg /\ d \in Holding(n)'
      BY <2>1, <3>1, Members DEF Holding
    <3>3. d # t /\ d \in Holding(n)
      BY <1>8, <3>2
    <3>4. n \notin ground /\ n \in ToSet(msgs[d])
      BY <1>2, <3>2, <3>3 DEF Holding
    <3> QED BY <1>5, <3>2, <3>4 DEF IInv, HeapFollowsMessage
  <2>2. ASSUME NEW u \in Inst, pc'[u] = "handling" PROVE heap'[mine'[u]] = u
    <3>1. pc[u] = "handling" /\ mine' = mine
      BY <1>1, <2>2
    <3>2. mine[u] \in Msg /\ Holding(mine[u]) = {}
      BY <3>1, AtWork DEF IInv, Places, Place
    <3>3. mine[u] \notin ground
      BY <1>2, <3>2
    <3> QED BY <1>5, <3>1, <3>2, <3>3 DEF IInv, HeapFollowsMessage
  <2>3. ASSUME NEW m \in Msg PROVE refcnt'[m] = 0 <=> heap'[m] = None
    <3>1. refcnt[m] = 0 <=> heap[m] = None
      BY DEF IInv, HeapFollowsMessage
    <3>2. CASE m \in ground
      BY <1>2, <1>4, <1>5, <3>1, <3>2
    <3>3. CASE m \notin ground
      BY <1>5, <3>1, <3>3
    <3> QED BY <3>2, <3>3
  <2> QED BY <2>1, <2>2, <2>3 DEF HeapFollowsMessage
<1>13. CountExact'
  <2>1. Len(<<>>) = 0
    OBVIOUS
  <2> QED BY <1>1, <1>9, <2>1 DEF IInv, CountExact
<1>14. Places'
  <2> SUFFICES ASSUME NEW u \in Inst PROVE Place(u)'
    BY DEF Places
  <2>1. pc[u] \notin {"checked", "looping", "room"} /\ Place(u)
    BY <1>1 DEF Readers, IInv, Places
  <2>2. pc[u] = "unsent" => refcnt'[mine[u]] = refcnt[mine[u]]
    <3> SUFFICES ASSUME pc[u] = "unsent"
                 PROVE  refcnt'[mine[u]] = refcnt[mine[u]]
      OBVIOUS
    <3>1. mine[u] \in Msg /\ Holders(mine[u]) # {} /\ refcnt[mine[u]] = 1
      BY <2>1, AtWork DEF Place
    <3>2. mine[u] \notin ground
      BY <1>2, <3>1
    <3> QED BY <1>5, <3>1, <3>2
  <2>3. pc[u] = "handling" => Holding(mine[u])' = {}
    BY <1>1, <1>8, <2>1 DEF Place
  <2> QED BY <1>1, <2>1, <2>2, <2>3 DEF Place
<1>15. Reserved'
  <2>1. \A c \in Inst : nr_msgs'[c] <= nr_msgs[c]
    <3>1. \A c \in Inst : nr_msgs[c] \in Nat
      BY <1>1 DEF TypeOK
    <3> QED BY <1>9, <3>1
  <2> QED BY <1>1, <1>9, <2>1, ReservedStill
<1> QED BY <1>10, <1>11, <1>12, <1>13, <1>14, <1>15 DEF IInv

-----------------------------------------------------------------------------
(* The steps of the threads. *)

\* The first of some instances is one of them.
LEMMA FirstOf ==
    ASSUME NEW S, S \subseteq Inst, S # {}
    PROVE  Min(S) \in S
<1>1. S \subseteq Nat
  BY MoveBufferAssumption
<1>2. \E i \in S : \A j \in S : i <= j
  BY <1>1, SmallestIndex
<1> QED BY <1>2 DEF Min

LEMMA NextBuffer ==
    ASSUME IInv, NEW b, After(b) # {}
    PROVE  Min(After(b)) \in live
<1>1. After(b) \subseteq live /\ live \subseteq Inst
  BY DEF After, IInv, TypeOK
<1>2. Min(After(b)) \in After(b)
  BY <1>1, FirstOf
<1> QED BY <1>1, <1>2

LEMMA InitHolds == Init => IInv
<1> SUFFICES ASSUME Init PROVE IInv
  OBVIOUS
<1> USE DEF Init
<1>1. ToSet(<<>>) = {} /\ IsInjective(<<>>) /\ Cardinality({}) = 0
  BY EmptyMembers, FS_EmptySet
<1>2. \A m \in Msg : Holders(m) = {} /\ Holding(m) = {}
  BY <1>1, MoveBufferAssumption DEF Holders, Holding
<1>3. TypeOK
  BY DEF TypeOK, PCs
<1>4. RefcntSound
  <2>1. ASSUME NEW m \in Msg
        PROVE  Cardinality(Holders(m)) = 0 /\ Cardinality(Holding(m)) = 0
    BY <1>1, <1>2
  <2> QED BY <1>1, <2>1 DEF RefcntSound
<1>5. HeapFollowsMessage
  BY <1>1 DEF HeapFollowsMessage
<1>6. CountExact
  BY DEF CountExact
<1>7. Places
  BY DEF Places, Place
<1>8. Reserved
  <2> SUFFICES ASSUME NEW b \in Inst
               PROVE  0 + Cardinality(Expected(b)) <= MaxMsgs - 1 + Cardinality(Inst)
    BY DEF Reserved
  <2>1. Expected(b) = {}
    BY DEF Expected
  <2>2. Cardinality(Expected(b)) = 0
    BY <1>1, <2>1
  <2> QED BY <2>2, FiniteInst, MoveBufferAssumption
<1> QED BY <1>3, <1>4, <1>5, <1>6, <1>7, <1>8 DEF IInv

LEMMA NextKeeps == IInv /\ [Next]_vars => IInv'
<1> SUFFICES ASSUME IInv, [Next]_vars PROVE IInv'
  OBVIOUS
<1>1. ASSUME NEW t \in Inst, NEW f \in BOOLEAN, purc_inst_create_move_buffer(t, f)
      PROVE  IInv'
  BY <1>1, Create
<1>2. ASSUME NEW t \in Inst, purc_inst_destroy_move_buffer(t)
      PROVE  IInv'
  BY <1>2, Destroy
<1>3. ASSUME NEW t \in Inst, NEW b \in Inst, NEW m \in Msg, SendCheck(t, b, m)
      PROVE  IInv'
  <2>1. CASE b \in live /\ Room(b)
    <3>1. Go(t, "checked", m, b)
      BY <1>3, <2>1 DEF SendCheck
    <3> QED BY <1>3, <2>1, <3>1, Allocate DEF SendCheck
  <2>2. CASE ~ (b \in live /\ Room(b))
    <3>1. Go(t, "unsent", m, None)
      BY <1>3, <2>2 DEF SendCheck
    <3> QED BY <1>3, <3>1, Allocate DEF SendCheck
  <2> QED BY <2>1, <2>2
<1>4. ASSUME NEW t \in Inst, SendAdd(t)
      PROVE  IInv'
  BY <1>4, MoveIn DEF SendAdd
<1>5. ASSUME NEW t \in Inst, NEW m \in Msg, BroadcastStart(t, m)
      PROVE  IInv'
  <2>1. CASE live = {}
    <3>1. Go(t, "unsent", m, None)
      BY <1>5, <2>1 DEF BroadcastStart
    <3> QED BY <1>5, <3>1, Allocate DEF BroadcastStart
  <2>2. CASE live # {}
    <3>1. Go(t, "looping", m, Min(live)) /\ Min(live) \in live
      BY <1>5, <2>2, FirstOf DEF BroadcastStart, IInv, TypeOK
    <3> QED BY <1>5, <3>1, Allocate DEF BroadcastStart
  <2> QED BY <2>1, <2>2
<1>6. ASSUME NEW t \in Inst, BroadcastCheck(t)
      PROVE  IInv'
  <2>1. pc[t] = "looping" /\ to[t] \in live
    BY <1>6 DEF BroadcastCheck, IInv, Places, Place
  <2>2. CASE flag[to[t]] /\ Room(to[t])
    <3>1. Go(t, "room", mine[t], to[t])
      BY <1>6, <2>2 DEF BroadcastCheck
    <3> QED BY <1>6, <2>1, <2>2, <3>1, GoOn DEF BroadcastCheck
  <2>3. CASE ~ (flag[to[t]] /\ Room(to[t])) /\ After(to[t]) = {}
    <3>1. Go(t, "unsent", mine[t], None)
      BY <1>6, <2>3 DEF BroadcastCheck, Turn
    <3> QED BY <1>6, <2>1, <3>1, GoOn DEF BroadcastCheck
  <2>4. CASE ~ (flag[to[t]] /\ Room(to[t])) /\ After(to[t]) # {}
    <3>1. Go(t, "looping", mine[t], Min(After(to[t])))
      BY <1>6, <2>4 DEF BroadcastCheck, Turn
    <3>2. Min(After(to[t])) \in live
      BY <2>4, NextBuffer
    <3> QED BY <1>6, <2>1, <3>1, <3>2, GoOn DEF BroadcastCheck
  <2> QED BY <2>2, <2>3, <2>4
<1>7. ASSUME NEW t \in Inst, BroadcastAdd(t)
      PROVE  IInv'
  <2>1. CASE After(to[t]) = {}
    BY <1>7, <2>1, MoveIn DEF BroadcastAdd, Turn
  <2>2. CASE After(to[t]) # {}
    <3>1. PICK clone \in Msg :
             /\ refcnt[clone] = 0
             /\ refcnt' = [refcnt EXCEPT ![clone] = 1]
             /\ heap' = [heap EXCEPT ![clone] = MoveHeap]
             /\ AddTo(to[t], clone)
      BY <1>7, <2>2 DEF BroadcastAdd
    <3>2. /\ pc[t] = "room" /\ Min(After(to[t])) \in live
          /\ Go(t, "looping", mine[t], Min(After(to[t])))
      BY <1>7, <2>2, NextBuffer DEF BroadcastAdd, Turn
    <3> QED BY <3>1, <3>2, CloneIn
  <2> QED BY <2>1, <2>2
<1>8. ASSUME NEW t \in Inst, BroadcastBreak(t)
      PROVE  IInv'
  BY <1>8, GoOn DEF BroadcastBreak
<1>9. ASSUME NEW t \in Inst, Release(t)
      PROVE  IInv'
  BY <1>9, Drop DEF Release
<1>10. ASSUME NEW t \in Inst, purc_inst_take_away_message(t)
       PROVE  IInv'
  BY <1>10, Take
<1>11. ASSUME NEW t \in Inst, Handled(t)
       PROVE  IInv'
  BY <1>11, Drop DEF Handled
<1>12. ASSUME UNCHANGED vars
       PROVE  IInv'
  <2>1. /\ UNCHANGED <<live, flag, msgs, nr_msgs, refcnt, heap, pc, mine, to>>
    BY <1>12 DEF vars, buffers
  <2>2. \A m : Holders(m)' = Holders(m) /\ Holding(m)' = Holding(m)
    BY <2>1 DEF Holders, Holding
  <2>3. TypeOK' /\ RefcntSound' /\ HeapFollowsMessage' /\ CountExact'
    BY <2>1, <2>2
       DEF IInv, TypeOK, RefcntSound, HeapFollowsMessage, CountExact
  <2>4. Places'
    BY <2>1, <2>2 DEF IInv, Places, Place, Holding
  <2>5. Reserved'
    <3>1. nr_msgs' \in [Inst -> Nat] /\ \A c \in Inst : nr_msgs'[c] <= nr_msgs[c]
      BY <2>1 DEF IInv, TypeOK
    <3> QED BY <2>1, <3>1, ReservedStill
  <2> QED BY <2>3, <2>4, <2>5 DEF IInv
<1> QED
  BY <1>1, <1>2, <1>3, <1>4, <1>5, <1>6, <1>7, <1>8, <1>9, <1>10, <1>11, <1>12
     DEF Next

LEMMA Inductive == Spec => []IInv
BY InitHolds, NextKeeps, PTL DEF Spec

-----------------------------------------------------------------------------
(* The theorems. *)

\* The variables keep their types: in particular a counter or a reference count
\* never goes below zero, where the unsigned fields of the code would wrap.
THEOREM BuffersTyped == Spec => []TypeOK
<1>1. IInv => TypeOK
  BY DEF IInv
<1> QED BY <1>1, Inductive, PTL

\* The reference count of pcinst_get_message, do_move_message and
\* pcinst_put_message is exact, whatever the order of sends, broadcasts, takes,
\* releases and destructions: nobody refers to a freed message, none is leaked,
\* and none is in two buffers or twice in one.
THEOREM CountsAreExact == Spec => []RefcntSound
<1>1. IInv => RefcntSound
  BY DEF IInv
<1> QED BY <1>1, Inductive, PTL

\* The variants of a message in a buffer are in the move heap, those of a
\* message that a receiver handles in the receiver's heap, although the sender
\* releases its reference at any time after the move (do_move_message,
\* do_take_message, pcrdr_release_message).
THEOREM VariantsFollow == Spec => []HeapFollowsMessage
<1>1. IInv => HeapFollowsMessage
  BY DEF IInv
<1> QED BY <1>1, Inductive, PTL

\* nr_msgs is the length of the list between any two steps, and no message is
\* ever put into a buffer that was destroyed: mb_lock is read-locked from the
\* lookup to the addition.
THEOREM NoMessageIntoTheVoid == Spec => []CountExact
<1>1. IInv => CountExact
  BY DEF IInv
<1> QED BY <1>1, Inductive, PTL

\* The check of nr_msgs against max_nr_msgs without the lock of the buffer
\* overfills it by at most one message for every other thread.
THEOREM OverfillBounded == Spec => []OverflowBounded
<1>1. IInv => OverflowBounded
  <2> SUFFICES ASSUME IInv, NEW b \in Inst
               PROVE  nr_msgs[b] <= MaxMsgs - 1 + Cardinality(Inst)
    BY DEF OverflowBounded
  <2> DEFINE e == Cardinality(Expected(b))
             k == Cardinality(Inst)
  <2>1. e \in Nat /\ k \in Nat
    <3>1. Expected(b) \subseteq Inst
      BY DEF Expected
    <3> QED BY <3>1, PartOfInst, FiniteInst
  <2>2. nr_msgs[b] + e <= MaxMsgs - 1 + k /\ nr_msgs[b] \in Nat /\ MaxMsgs \in Nat
    BY MoveBufferAssumption DEF IInv, Reserved, TypeOK
  <2> HIDE DEF e, k
  <2>3. nr_msgs[b] <= MaxMsgs - 1 + k
    BY <2>1, <2>2
  <2> QED BY <2>3 DEF k
<1> QED BY <1>1, Inductive, PTL

=============================================================================
