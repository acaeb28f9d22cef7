------------------------ MODULE RendererConnsProofs ------------------------
(***************************************************************************)
(* Proofs about the connections of an instance (RendererConns.tla), for    *)
(* any number of connections and of coroutines, and any inheritance of     *)
(* pages between them.                                                     *)
(*                                                                         *)
(* A behaviour ends with the first slip, so each of the properties says    *)
(* what holds before one, and after those slips that do not concern it.    *)
(***************************************************************************)
EXTENDS RendererConns, ListLemmas

-----------------------------------------------------------------------------
(* The inductive invariant. *)

Insts == [conns : Seq(Conn), pending : Seq(Conn), closing : Seq(Conn),
          main : Entry, curr : Entry, origin : Entry]

\* No connection is in two lists of i, or twice in one, or the origin as well.
Apart(i) ==
    /\ IsInjective(i.conns) /\ IsInjective(i.pending) /\ IsInjective(i.closing)
    /\ ToSet(i.conns) \cap ToSet(i.pending) = {}
    /\ ToSet(i.conns) \cap ToSet(i.closing) = {}
    /\ ToSet(i.pending) \cap ToSet(i.closing) = {}
    /\ i.origin \notin ToSet(i.conns) \cup ToSet(i.pending) \cup ToSet(i.closing)

Held(i) == ToSet(i.conns) \cup ToSet(i.pending) \cup ToSet(i.closing)
              \cup ({i.origin} \ {Null})

\* The connections of i are those in U, each with one owner.
Owns(i, U) == Apart(i) /\ Held(i) = U

\* The pointers of i are null or in U, main is null or listed.
Points(i, U) == /\ {i.main, i.curr, i.origin} \subseteq U \cup {Null}
                /\ i.main \in ToSet(i.conns) \cup {Null}

\* The origin of a switch, about to be closed, is not current.
Idle(i) == i.origin # Null => i.curr # i.origin

OwnedSlips == {"late refusal", "unlisted main", "origin overwritten"}
PointerSlips == {"no renderer left", "pending main", "late refusal",
                 "unlisted main", "current closed"}

OwnsAll == slips \cap OwnedSlips = {} => Owns(inst, Usable)
PointsSound == slips \cap PointerSlips = {} /\ phase # "done" => Points(inst, Usable)
OriginIdle == slips = {} /\ phase # "done" => Idle(inst)

\* The walk is at a connection of its list and goes on at another one, or ends.
WalkSound ==
    phase \in {"pending", "conns"} =>
       /\ next \in ToSet(Listed(inst)) \cup {End}
       /\ slips = {} => cur \in ToSet(Listed(inst)) \cup {End}
       /\ slips = {} /\ cur # End => next # cur

\* A coroutine is not running and stopped at once, one that is neither has no
\* entries.
CrtnsSound ==
    slips = {} => /\ ToSet(crtns) \cap ToSet(stopped) = {}
                  /\ \A c \in Crtn \ Alive : att[c] = {}

IInv == /\ TypeOK /\ inst.origin \in Conn \cup {Null}
        /\ OwnsAll /\ PointsSound /\ OriginIdle
        /\ WalkSound /\ CrtnsSound /\ EntriesSound /\ Attached

-----------------------------------------------------------------------------
(* Operators on the instance. *)

LEMMA NullsApart ==
    /\ Null \notin Conn /\ Wild \notin Conn /\ End \notin Conn
    /\ Null # Wild /\ Null # End /\ Wild # End
BY ConnsAssumption

\* Owned, in terms of the members of the lists.
AllOf(i) == i.conns \o i.pending \o i.closing
               \o (IF i.origin = Null THEN <<>> ELSE <<i.origin>>)

LEMMA OwnsMeansOwned ==
    ASSUME NEW i \in Insts, i.origin \in Conn \cup {Null}, NEW U
    PROVE  Owns(i, U) => IsInjective(AllOf(i)) /\ ToSet(AllOf(i)) = U
<1> DEFINE o == IF i.origin = Null THEN <<>> ELSE <<i.origin>>
<1>1. i.conns \in Seq(Conn) /\ i.pending \in Seq(Conn) /\ i.closing \in Seq(Conn)
  BY DEF Insts
<1>2. o \in Seq(Conn) /\ IsInjective(o) /\ ToSet(o) = {i.origin} \ {Null}
  <2>1. CASE i.origin = Null
    BY <2>1, EmptyMembers
  <2>2. CASE i.origin # Null
    <3>1. i.origin \in Conn /\ o = <<i.origin>>
      BY <2>2
    <3>2. PICK x \in Conn : x = i.origin
      BY <3>1
    <3>3. <<x>> \in Seq(Conn) /\ IsInjective(<<x>>) /\ ToSet(<<x>>) = {x}
      BY DEF IsInjective, ToSet
    <3> QED BY <3>1, <3>2, <3>3, <2>2
  <2> QED BY <2>1, <2>2
<1> HIDE DEF o
<1>3. PICK u : Concats(u, i.conns, i.pending)
  BY DEF Concats
<1>4. /\ u \in Seq(Conn) /\ ToSet(u) = ToSet(i.conns) \cup ToSet(i.pending)
      /\ IsInjective(u) <=> /\ IsInjective(i.conns) /\ IsInjective(i.pending)
                            /\ ToSet(i.conns) \cap ToSet(i.pending) = {}
  BY <1>1, <1>3, JoinedMembers
<1>5. PICK v : Concats(v, u, i.closing)
  BY DEF Concats
<1>6. /\ v \in Seq(Conn) /\ ToSet(v) = ToSet(u) \cup ToSet(i.closing)
      /\ IsInjective(v) <=> /\ IsInjective(u) /\ IsInjective(i.closing)
                            /\ ToSet(u) \cap ToSet(i.closing) = {}
  BY <1>1, <1>4, <1>5, JoinedMembers
<1>7. PICK all : Concats(all, v, o)
  BY DEF Concats
<1>8. /\ ToSet(all) = ToSet(v) \cup ToSet(o)
      /\ IsInjective(all) <=> /\ IsInjective(v) /\ IsInjective(o)
                              /\ ToSet(v) \cap ToSet(o) = {}
  BY <1>2, <1>6, <1>7, JoinedMembers
<1>9. AllOf(i) = all
  BY <1>3, <1>5, <1>7 DEF AllOf, Concats, o
<1>10. Owns(i, U) => IsInjective(all) /\ ToSet(all) = U
  BY <1>2, <1>4, <1>6, <1>8 DEF Owns, Apart, Held
<1> QED BY <1>9, <1>10

LEMMA AddConnSound ==
    ASSUME NEW i \in Insts, NEW n \in Conn, NEW j, j = AddConn(i, n)
    PROVE  /\ j \in Insts
           /\ ToSet(j.conns) = ToSet(i.conns) \cup {n}
           /\ IsInjective(i.conns) /\ n \notin ToSet(i.conns) => IsInjective(j.conns)
           /\ j.pending = i.pending /\ j.closing = i.closing /\ j.origin = i.origin
           /\ j.main = (IF i.main = Null THEN n ELSE i.main)
           /\ j.curr = (IF i.curr = Null THEN n ELSE i.curr)
<1>1. PICK w : w = Append(i.conns, n)
  OBVIOUS
<1>2. i.conns \in Seq(Conn)
  BY DEF Insts
<1>3. /\ w \in Seq(Conn) /\ ToSet(w) = ToSet(i.conns) \cup {n}
      /\ IsInjective(i.conns) /\ n \notin ToSet(i.conns) => IsInjective(w)
  BY <1>1, <1>2, AppendMembers
<1>4. j = Adopt([i EXCEPT !.conns = w], n)
  BY <1>1 DEF AddConn
<1>5. /\ j \in Insts /\ j.conns = w
      /\ j.pending = i.pending /\ j.closing = i.closing /\ j.origin = i.origin
      /\ j.main = (IF i.main = Null THEN n ELSE i.main)
      /\ j.curr = (IF i.curr = Null THEN n ELSE i.curr)
  BY <1>3, <1>4 DEF Adopt, Insts, Entry
<1> QED BY <1>3, <1>5

\* A new connection joins the list, and is main or current if there is none.
LEMMA AddKeeps ==
    ASSUME NEW i \in Insts, NEW U \in SUBSET Conn, NEW n \in Conn \ U,
           NEW j, j = AddConn(i, n)
    PROVE  /\ Owns(i, U) => Owns(j, U \cup {n})
           /\ Points(i, U) => Points(j, U \cup {n})
           /\ Owns(i, U) /\ Idle(i) => Idle(j)
<1>1. /\ ToSet(j.conns) = ToSet(i.conns) \cup {n}
      /\ IsInjective(i.conns) /\ n \notin ToSet(i.conns) => IsInjective(j.conns)
      /\ j.pending = i.pending /\ j.closing = i.closing /\ j.origin = i.origin
      /\ j.main = (IF i.main = Null THEN n ELSE i.main)
      /\ j.curr = (IF i.curr = Null THEN n ELSE i.curr)
  BY AddConnSound
<1>2. n # Null
  BY NullsApart
<1>3. Owns(i, U) => n \notin Held(i)
  BY DEF Owns
<1>4. Owns(i, U) => Owns(j, U \cup {n})
  BY <1>1, <1>2, <1>3 DEF Owns, Apart, Held
<1>5. Points(i, U) => Points(j, U \cup {n})
  BY <1>1, <1>2 DEF Points
<1>6. Owns(i, U) /\ Idle(i) => Idle(j)
  BY <1>1, <1>2, <1>3 DEF Idle, Held
<1> QED BY <1>4, <1>5, <1>6

\* list_del of the connections of K.
Unlinked(u, w, K) == u = Without(w, K)

LEMMA UnlinkedConns ==
    ASSUME NEW S, NEW w \in Seq(S), NEW K, NEW u, Unlinked(u, w, K)
    PROVE  /\ u \in Seq(S) /\ ToSet(u) = ToSet(w) \ K
           /\ IsInjective(w) => IsInjective(u)
<1>1. u = Without(w, K)
  BY DEF Unlinked
<1> QED BY <1>1, WithoutMembers

Forgets(j, i, k) == j = Forget(i, k)

LEMMA ForgetSound ==
    ASSUME NEW i \in Insts, NEW k \in Conn, NEW j, Forgets(j, i, k)
    PROVE  /\ j.conns \in Seq(Conn) /\ j.pending \in Seq(Conn)
           /\ ToSet(j.conns) = ToSet(i.conns) \ {k}
           /\ ToSet(j.pending) = ToSet(i.pending) \ {k}
           /\ IsInjective(i.conns) => IsInjective(j.conns)
           /\ IsInjective(i.pending) => IsInjective(j.pending)
           /\ j.closing = i.closing /\ j.origin = i.origin
           /\ j.main \in (({i.main, i.curr} \ {k, Null}) \cup ToSet(j.conns) \cup {Wild})
           /\ j.curr \in (({i.curr} \ {k}) \cup {Null} \cup ToSet(j.conns) \cup {Wild})
           /\ i.main \notin {k, Null} => j.main = i.main
           /\ j.curr = Wild => i.curr = Wild \/ j.main = Wild
           /\ j \in Insts
<1>1. PICK u : Unlinked(u, i.conns, {k})
  BY DEF Unlinked
<1>2. PICK v : Unlinked(v, i.pending, {k})
  BY DEF Unlinked
<1>3. i.conns \in Seq(Conn) /\ i.pending \in Seq(Conn)
  BY DEF Insts
<1>4. /\ u \in Seq(Conn) /\ ToSet(u) = ToSet(i.conns) \ {k}
      /\ IsInjective(i.conns) => IsInjective(u)
  BY <1>1, <1>3, UnlinkedConns
<1>5. /\ v \in Seq(Conn) /\ ToSet(v) = ToSet(i.pending) \ {k}
      /\ IsInjective(i.pending) => IsInjective(v)
  BY <1>2, <1>3, UnlinkedConns
<1> DEFINE m == IF i.main = k THEN Null ELSE i.main
           c == IF i.curr = k THEN Null ELSE i.curr
           f == FirstEntry(u)
<1>6. f \in ToSet(u) \cup {Wild}
  BY <1>4, TailMembers DEF FirstEntry
<1> HIDE DEF f
<1>7. j = [i EXCEPT !.conns = u, !.pending = v,
                    !.main = IF m # Null THEN m ELSE IF c # Null THEN c ELSE f,
                    !.curr = IF m = Null /\ c = Null THEN f ELSE c]
  BY <1>1, <1>2 DEF Forgets, Forget, f, Unlinked
<1>8. /\ j.conns = u /\ j.pending = v
      /\ j.closing = i.closing /\ j.origin = i.origin
      /\ j.main = (IF m # Null THEN m ELSE IF c # Null THEN c ELSE f)
      /\ j.curr = (IF m = Null /\ c = Null THEN f ELSE c)
  BY <1>7 DEF Insts
<1>9. j \in Insts
  <2>1. f \in Entry
    BY <1>4, <1>6, Members DEF Entry
  <2>2. i.main \in Entry /\ i.curr \in Entry /\ Null \in Entry
    BY DEF Insts, Entry
  <2> HIDE DEF Entry
  <2> QED BY <1>4, <1>5, <1>7, <2>1, <2>2 DEF Insts
<1>10. /\ j.main \in (({i.main, i.curr} \ {k, Null}) \cup ToSet(u) \cup {Wild})
       /\ j.curr \in (({i.curr} \ {k}) \cup {Null} \cup ToSet(u) \cup {Wild})
       /\ i.main \notin {k, Null} => j.main = i.main
       /\ j.curr = Wild => i.curr = Wild \/ j.main = Wild
  BY <1>6, <1>8, NullsApart
<1> QED BY <1>4, <1>5, <1>8, <1>9, <1>10

LEMMA ForgetLists ==
    ASSUME NEW i \in Insts, NEW k \in Conn, NEW j, Forgets(j, i, k)
    PROVE  /\ ToSet(j.conns) = ToSet(i.conns) \ {k}
           /\ ToSet(j.pending) = ToSet(i.pending) \ {k}
<1>1. ToSet(j.conns) = ToSet(i.conns) \ {k}
  BY ForgetSound
<1>2. ToSet(j.pending) = ToSet(i.pending) \ {k}
  BY ForgetSound
<1> QED BY <1>1, <1>2

\* A connection of one of the two lists is unlinked and forgotten.
LEMMA ForgetKeeps ==
    ASSUME NEW i \in Insts, NEW U \in SUBSET Conn, NEW k \in Conn,
           NEW j, Forgets(j, i, k), k \in ToSet(i.conns) \cup ToSet(i.pending),
           Owns(i, U), Points(i, U), Idle(i)
    PROVE  /\ Owns(j, U \ {k})
           /\ MainLost(j) = {} => Points(j, U \ {k})
           /\ MainLost(j) = {} => Idle(j)
<1>1. /\ ToSet(j.conns) = ToSet(i.conns) \ {k}
      /\ ToSet(j.pending) = ToSet(i.pending) \ {k}
      /\ j.closing = i.closing /\ j.origin = i.origin
  <2>1. ToSet(j.conns) = ToSet(i.conns) \ {k}
    BY ForgetSound
  <2>2. ToSet(j.pending) = ToSet(i.pending) \ {k}
    BY ForgetSound
  <2>3. j.closing = i.closing /\ j.origin = i.origin
    BY ForgetSound
  <2> QED BY <2>1, <2>2, <2>3
<1>2. IsInjective(j.conns) /\ IsInjective(j.pending)
  <2>1. IsInjective(i.conns) /\ IsInjective(i.pending)
    BY DEF Owns, Apart
  <2> QED BY <2>1, ForgetSound
<1>3. /\ j.main \in (({i.main, i.curr} \ {k, Null}) \cup ToSet(j.conns) \cup {Wild})
      /\ j.curr \in (({i.curr} \ {k}) \cup {Null} \cup ToSet(j.conns) \cup {Wild})
      /\ j.curr = Wild => i.curr = Wild \/ j.main = Wild
  BY ForgetSound
<1>4. Owns(j, U \ {k})
  <2>1. k \notin ToSet(i.closing) /\ k # i.origin
    BY DEF Owns, Apart
  <2>2. Apart(j)
    BY <1>1, <1>2 DEF Owns, Apart
  <2>3. Held(j) = Held(i) \ {k}
    BY <1>1, <2>1 DEF Held
  <2> QED BY <2>2, <2>3 DEF Owns
<1>5. ASSUME MainLost(j) = {} PROVE Points(j, U \ {k}) /\ Idle(j)
  <2>1. j.main # Wild /\ j.main \in ToSet(j.conns) \cup {Null}
    BY <1>5 DEF MainLost
  <2>2. i.curr # Wild
    BY NullsApart DEF Points
  <2>3. j.curr # Wild
    BY <1>3, <2>1, <2>2
  <2>4. j.curr \in (({i.curr} \ {k}) \cup {Null} \cup ToSet(j.conns))
    BY <1>3, <2>3
  <2>5. ToSet(j.conns) \subseteq U \ {k}
    BY <1>4 DEF Owns, Held
  <2>6. i.origin # k
    BY DEF Owns, Apart
  <2>7. Points(j, U \ {k})
    BY <1>1, <2>1, <2>4, <2>5, <2>6 DEF Points
  <2>8. Idle(j)
    BY <1>1, <1>4, <2>4 DEF Idle, Owns, Apart
  <2> QED BY <2>7, <2>8
<1> QED BY <1>4, <1>5

\* $RDR closes the main connection, if there is one.
LEMMA CutMainKeeps ==
    ASSUME NEW i \in Insts, NEW U \in SUBSET Conn, NEW j, j = CutMain(i),
           Owns(i, U), Points(i, U), Idle(i)
    PROVE  /\ j \in Insts /\ i.main \in Conn \cup {Null}
           /\ ToSet(j.conns) = ToSet(i.conns) \ {i.main}
           /\ j.main = Null /\ j.origin = i.origin
           /\ Owns(j, U \ {i.main}) /\ Points(j, U \ {i.main}) /\ Idle(j)
<1>1. PICK u : Unlinked(u, i.conns, {i.main})
  BY DEF Unlinked
<1>2. i.conns \in Seq(Conn) /\ i.pending \in Seq(Conn) /\ i.closing \in Seq(Conn)
  BY DEF Insts
<1>3. /\ u \in Seq(Conn) /\ ToSet(u) = ToSet(i.conns) \ {i.main}
      /\ IsInjective(i.conns) => IsInjective(u)
  BY <1>1, <1>2, UnlinkedConns
<1>4. i.main = Null \/ (i.main \in ToSet(i.conns) /\ i.main \in U)
  BY DEF Points
<1>5. j = [i EXCEPT !.conns = u, !.curr = IF @ = i.main THEN Null ELSE @, !.main = Null]
  BY <1>1 DEF CutMain, Unlinked
<1>6. /\ j \in Insts /\ j.conns = u /\ j.main = Null
      /\ j.curr = (IF i.curr = i.main THEN Null ELSE i.curr)
      /\ j.pending = i.pending /\ j.closing = i.closing /\ j.origin = i.origin
  BY <1>3, <1>5 DEF Insts, Entry
<1>7. Null \notin ToSet(i.pending) \cup ToSet(i.closing) \cup ToSet(i.conns)
  BY <1>2, Members, NullsApart
<1>8. Owns(j, U \ {i.main})
  <2>1. /\ i.main \notin ToSet(i.pending) \cup ToSet(i.closing)
        /\ i.main # Null => i.main # i.origin
    BY <1>4, <1>7 DEF Owns, Apart
  <2>2. Apart(j)
    BY <1>3, <1>6 DEF Owns, Apart
  <2>3. Held(j) = Held(i) \ {i.main}
    BY <1>3, <1>6, <2>1 DEF Held
  <2> QED BY <2>2, <2>3 DEF Owns
<1>9. Points(j, U \ {i.main}) /\ Idle(j)
  <2>1. i.main # Null => i.main # i.origin
    BY <1>4 DEF Owns, Apart
  <2> QED BY <1>6, <2>1 DEF Points, Idle
<1> QED BY <1>3, <1>4, <1>6, <1>8, <1>9

\* A switch: the main connection becomes the origin, n takes its place.
Installs(j, i, n, U) ==
    /\ j = Install(i, n)
    /\ i.main # Null
    /\ n \in Conn \ U

Installed(j, i, n) ==
    /\ i.main \in Conn /\ j.origin = i.main
    /\ ToSet(j.conns) = (ToSet(i.conns) \ {i.main}) \cup {n}
    /\ j.pending = i.pending

LEMMA InstallKeeps ==
    ASSUME NEW i \in Insts, NEW U \in SUBSET Conn, NEW n,
           NEW j, Installs(j, i, n, U), Owns(i, U), Points(i, U)
    PROVE  /\ j \in Insts /\ Installed(j, i, n)
           /\ i.origin = Null => Owns(j, U \cup {n})
           /\ Points(j, U \cup {n}) /\ Idle(j)
<1>0. j = Install(i, n) /\ i.main # Null /\ n \in Conn \ U
  BY DEF Installs
<1>1. PICK u : Unlinked(u, i.conns, {i.main})
  BY DEF Unlinked
<1>2. i.conns \in Seq(Conn)
  BY DEF Insts
<1>3. /\ u \in Seq(Conn) /\ ToSet(u) = ToSet(i.conns) \ {i.main}
      /\ IsInjective(i.conns) => IsInjective(u)
  BY <1>1, <1>2, UnlinkedConns
<1>4. PICK w : w = Append(u, n)
  OBVIOUS
<1>5. /\ w \in Seq(Conn) /\ ToSet(w) = ToSet(u) \cup {n}
      /\ IsInjective(u) /\ n \notin ToSet(u) => IsInjective(w)
  BY <1>0, <1>3, <1>4, AppendMembers
<1>6. i.main \in ToSet(i.conns) /\ i.main \in U
  BY <1>0 DEF Points
<1>7. j = [i EXCEPT !.origin = i.main, !.conns = w, !.main = n,
                    !.curr = IF @ = i.main THEN n ELSE @]
  BY <1>0, <1>1, <1>4 DEF Install, Unlinked
<1>8. /\ j \in Insts /\ j.conns = w /\ j.main = n /\ j.origin = i.main
      /\ j.curr = (IF i.curr = i.main THEN n ELSE i.curr)
      /\ j.pending = i.pending /\ j.closing = i.closing
  BY <1>0, <1>5, <1>7 DEF Insts, Entry
<1>9. n # i.main /\ n # Null
  BY <1>0, <1>6, NullsApart
<1>10. ASSUME i.origin = Null PROVE Owns(j, U \cup {n})
  <2>1. /\ i.main \notin ToSet(i.pending) \cup ToSet(i.closing)
        /\ n \notin ToSet(i.conns) \cup ToSet(i.pending) \cup ToSet(i.closing)
    BY <1>0, <1>6 DEF Owns, Apart, Held
  <2>2. IsInjective(w) /\ ToSet(w) = (ToSet(i.conns) \ {i.main}) \cup {n}
    BY <1>0, <1>3, <1>5, <2>1 DEF Owns, Apart
  <2>3. Apart(j)
    BY <1>8, <1>9, <2>1, <2>2 DEF Owns, Apart
  <2>4. Held(j) = Held(i) \cup {n}
    BY <1>0, <1>6, <1>8, <1>10, <2>2 DEF Held
  <2> QED BY <2>3, <2>4 DEF Owns
<1>11. Points(j, U \cup {n}) /\ Idle(j)
  BY <1>0, <1>5, <1>6, <1>8, <1>9 DEF Points, Idle
<1>12. Installed(j, i, n)
  BY <1>0, <1>3, <1>5, <1>6, <1>8 DEF Installed
<1> QED BY <1>8, <1>10, <1>11, <1>12

\* update_current_conn.
LEMMA CurrentKeeps ==
    ASSUME NEW i \in Insts, NEW U, NEW k \in Conn, NEW j, j = [i EXCEPT !.curr = k],
           k \in ToSet(i.conns) \cup ToSet(i.pending),
           Owns(i, U), Points(i, U)
    PROVE  /\ j \in Insts /\ j.conns = i.conns /\ j.pending = i.pending
           /\ j.main = i.main /\ j.origin = i.origin
           /\ Owns(j, U) /\ Points(j, U) /\ Idle(j)
<1>1. /\ j \in Insts /\ j.curr = k /\ j.main = i.main /\ j.origin = i.origin
      /\ j.conns = i.conns /\ j.pending = i.pending /\ j.closing = i.closing
  BY DEF Insts, Entry
<1>2. Owns(j, U)
  BY <1>1 DEF Owns, Apart, Held
<1>3. Points(j, U) /\ Idle(j)
  BY <1>1 DEF Owns, Apart, Held, Points, Idle
<1> QED BY <1>1, <1>2, <1>3

\* A connection to another renderer is pending.
AddsPending(j, i, n) == j = [i EXCEPT !.pending = Append(@, n)]

LEMMA PendingKeeps ==
    ASSUME NEW i \in Insts, NEW U \in SUBSET Conn, NEW n \in Conn \ U,
           NEW j, AddsPending(j, i, n),
           Owns(i, U), Points(i, U), Idle(i)
    PROVE  /\ j \in Insts /\ j.conns = i.conns /\ j.origin = i.origin
           /\ ToSet(j.pending) = ToSet(i.pending) \cup {n}
           /\ Owns(j, U \cup {n}) /\ Points(j, U \cup {n}) /\ Idle(j)
<1>1. i.pending \in Seq(Conn)
  BY DEF Insts
<1>2. PICK w : Appended(i.pending, n, w)
  BY DEF Appended
<1>3. j = [i EXCEPT !.pending = w]
  BY <1>2 DEF Appended, AddsPending
<1>4. /\ w \in Seq(Conn) /\ ToSet(w) = ToSet(i.pending) \cup {n}
      /\ IsInjective(i.pending) /\ n \notin ToSet(i.pending) => IsInjective(w)
  BY <1>1, <1>2, AppendedMembers
<1>5. /\ j \in Insts /\ j.curr = i.curr /\ j.main = i.main /\ j.origin = i.origin
      /\ j.conns = i.conns /\ j.pending = w /\ j.closing = i.closing
  BY <1>4, <1>3 DEF Insts
<1>6. n \notin Held(i) /\ n # Null
  BY NullsApart DEF Owns
<1>7. Owns(j, U \cup {n})
  BY <1>4, <1>5, <1>6 DEF Owns, Apart, Held
<1>8. Points(j, U \cup {n}) /\ Idle(j)
  BY <1>5 DEF Points, Idle
<1> QED BY <1>4, <1>5, <1>7, <1>8

\* A pending connection is rejected, and is to be closed.
LEMMA RefuseKeeps ==
    ASSUME NEW i \in Insts, NEW U, NEW k \in Conn, NEW j, j = Refuse(i, k),
           k \in ToSet(i.pending), Owns(i, U), Points(i, U), Idle(i)
    PROVE  /\ j \in Insts /\ j.conns = i.conns /\ j.origin = i.origin
           /\ ToSet(j.pending) = ToSet(i.pending) \ {k}
           /\ Owns(j, U) /\ Points(j, U) /\ Idle(j)
<1>1. i.pending \in Seq(Conn) /\ i.closing \in Seq(Conn)
  BY DEF Insts
<1>2. PICK u : Unlinked(u, i.pending, {k})
  BY DEF Unlinked
<1>3. /\ u \in Seq(Conn) /\ ToSet(u) = ToSet(i.pending) \ {k}
      /\ IsInjective(i.pending) => IsInjective(u)
  BY <1>1, <1>2, UnlinkedConns
<1>4. PICK w : Appended(i.closing, k, w)
  BY DEF Appended
<1>5. /\ w \in Seq(Conn) /\ ToSet(w) = ToSet(i.closing) \cup {k}
      /\ IsInjective(i.closing) /\ k \notin ToSet(i.closing) => IsInjective(w)
  BY <1>1, <1>4, AppendedMembers
<1>6. j = [i EXCEPT !.pending = u, !.closing = w]
  BY <1>2, <1>4 DEF Refuse, Unlinked, Appended
<1>7. /\ j \in Insts /\ j.curr = i.curr /\ j.main = i.main /\ j.origin = i.origin
      /\ j.conns = i.conns /\ j.pending = u /\ j.closing = w
  BY <1>3, <1>5, <1>6 DEF Insts
<1>8. k \notin ToSet(i.closing) \cup ToSet(i.conns) /\ k # i.origin
  BY DEF Owns, Apart
<1>9. Owns(j, U)
  BY <1>3, <1>5, <1>7, <1>8 DEF Owns, Apart, Held
<1>10. Points(j, U) /\ Idle(j)
  BY <1>7 DEF Points, Idle
<1> QED BY <1>3, <1>7, <1>9, <1>10

\* A pending connection is accepted.
LEMMA AcceptKeeps ==
    ASSUME NEW i \in Insts, NEW U \in SUBSET Conn, NEW k \in Conn,
           NEW j, j = Accept(i, k),
           k \in ToSet(i.pending), Owns(i, U), Points(i, U), Idle(i)
    PROVE  /\ j \in Insts /\ j.origin = i.origin
           /\ ToSet(j.conns) = ToSet(i.conns) \cup {k}
           /\ ToSet(j.pending) = ToSet(i.pending) \ {k}
           /\ Owns(j, U) /\ Points(j, U) /\ Idle(j)
<1>1. i.pending \in Seq(Conn)
  BY DEF Insts
<1>2. PICK u : Unlinked(u, i.pending, {k})
  BY DEF Unlinked
<1>3. /\ u \in Seq(Conn) /\ ToSet(u) = ToSet(i.pending) \ {k}
      /\ IsInjective(i.pending) => IsInjective(u)
  BY <1>1, <1>2, UnlinkedConns
<1>4. PICK h : h = [i EXCEPT !.pending = u]
  OBVIOUS
<1>5. /\ h \in Insts /\ h.curr = i.curr /\ h.main = i.main /\ h.origin = i.origin
      /\ h.conns = i.conns /\ h.pending = u /\ h.closing = i.closing
  BY <1>3, <1>4 DEF Insts
<1>6. j = AddConn(h, k)
  BY <1>2, <1>4 DEF Accept, Unlinked
<1>7. /\ j \in Insts /\ ToSet(j.conns) = ToSet(h.conns) \cup {k}
      /\ IsInjective(h.conns) /\ k \notin ToSet(h.conns) => IsInjective(j.conns)
      /\ j.pending = h.pending /\ j.closing = h.closing /\ j.origin = h.origin
      /\ j.main = (IF h.main = Null THEN k ELSE h.main)
      /\ j.curr = (IF h.curr = Null THEN k ELSE h.curr)
  BY <1>5, <1>6, AddConnSound
<1>8. k \notin ToSet(i.closing) \cup ToSet(i.conns) /\ k # i.origin /\ k \in U
  BY DEF Owns, Apart, Held
<1>9. Owns(j, U)
  <2>1. Apart(j)
    BY <1>3, <1>5, <1>7, <1>8 DEF Owns, Apart
  <2>2. Held(j) = Held(i)
    BY <1>3, <1>5, <1>7, <1>8 DEF Held
  <2> QED BY <2>1, <2>2 DEF Owns
<1>10. Points(j, U) /\ Idle(j)
  BY <1>5, <1>7, <1>8 DEF Points, Idle
<1> QED BY <1>3, <1>5, <1>7, <1>9, <1>10

\* The top of pcintr_schedule: the origin is freed, with rejected connections.
Cleans(j, i, K) ==
    /\ K \subseteq {i.origin} \cup ToSet(i.closing)
    /\ i.origin # Null => i.origin \in K
    /\ Null \notin K
    /\ j = [i EXCEPT !.origin = Null, !.closing = Without(@, K)]

LEMMA CleanKeeps ==
    ASSUME NEW i \in Insts, NEW U, NEW K, NEW j, Cleans(j, i, K),
           Owns(i, U), Points(i, U), Idle(i)
    PROVE  /\ j \in Insts /\ j.conns = i.conns /\ j.origin = Null
           /\ K \cap ToSet(i.conns) = {}
           /\ Owns(j, U \ K) /\ Idle(j)
           /\ i.curr \notin K \ {i.origin} => Points(j, U \ K)
<1>1. PICK u : Unlinked(u, i.closing, K)
  BY DEF Unlinked
<1>2. i.closing \in Seq(Conn)
  BY DEF Insts
<1>3. /\ u \in Seq(Conn) /\ ToSet(u) = ToSet(i.closing) \ K
      /\ IsInjective(i.closing) => IsInjective(u)
  BY <1>1, <1>2, UnlinkedConns
<1>4. j = [i EXCEPT !.origin = Null, !.closing = u]
  BY <1>1 DEF Cleans, Unlinked
<1>5. /\ j \in Insts /\ j.curr = i.curr /\ j.main = i.main /\ j.origin = Null
      /\ j.conns = i.conns /\ j.pending = i.pending /\ j.closing = u
  BY <1>3, <1>4 DEF Insts, Entry
<1>6. K \cap (ToSet(i.conns) \cup ToSet(i.pending)) = {}
  BY DEF Owns, Apart, Cleans
<1>7. /\ Null \notin K
      /\ i.origin # Null => i.origin \in K
      /\ K \subseteq {i.origin} \cup ToSet(i.closing)
  BY DEF Cleans
<1>8. Owns(j, U \ K)
  <2>1. Apart(j)
    <3>1. Null \notin ToSet(i.conns) \cup ToSet(i.pending) \cup ToSet(i.closing)
      BY NullsApart, Members DEF Insts
    <3> QED BY <1>3, <1>5, <3>1 DEF Owns, Apart
  <2>2. Held(j) = Held(i) \ K
    BY <1>3, <1>5, <1>6, <1>7 DEF Held
  <2> QED BY <2>1, <2>2 DEF Owns
<1>9. Idle(j)
  BY <1>5 DEF Idle
<1>10. ASSUME i.curr \notin K \ {i.origin} PROVE Points(j, U \ K)
  <2>1. i.main \notin K
    BY <1>6, <1>7 DEF Points
  <2>2. i.curr # i.origin \/ i.curr = Null
    BY DEF Idle
  <2>3. i.curr \notin K
    BY <1>10, <1>7, <2>2
  <2> QED BY <1>5, <2>1, <2>3 DEF Points
<1> QED BY <1>5, <1>6, <1>8, <1>9, <1>10

-----------------------------------------------------------------------------
(* The walk. *)

LEMMA AfterSound ==
    ASSUME NEW s \in Seq(Conn), NEW k \in ToSet(s), NEW a, a = After(s, k)
    PROVE  /\ a \in ToSet(s) \cup {End}
           /\ IsInjective(s) => a # k
<1>1. PICK j0 \in 1 .. Len(s) : s[j0] = k
  BY Members
<1> DEFINE i == CHOOSE j \in 1 .. Len(s) : s[j] = k
<1>2. i \in 1 .. Len(s) /\ s[i] = k
  BY <1>1
<1>3. a = IF i = Len(s) THEN End ELSE s[i + 1]
  BY DEF After
<1> HIDE DEF i
<1>4. Len(s) \in Nat
  OBVIOUS
<1>5. CASE i = Len(s)
  <2>1. k \in Conn
    BY Members
  <2> QED BY <1>3, <1>5, <2>1, NullsApart
<1>6. CASE i # Len(s)
  <2>1. i + 1 \in 1 .. Len(s) /\ i + 1 # i
    BY <1>2, <1>4, <1>6
  <2>2. a = s[i + 1]
    BY <1>3, <1>6
  <2>3. a \in ToSet(s)
    BY <2>1, <2>2, Members
  <2>4. ASSUME IsInjective(s), a = k PROVE FALSE
    <3>1. \A p, q \in 1 .. Len(s) : s[p] = s[q] => p = q
      BY <2>4, Members
    <3> QED BY <3>1, <2>1, <2>2, <2>4, <1>2
  <2> QED BY <2>3, <2>4
<1> QED BY <1>5, <1>6

\* A walk through s is at c and goes on at n.
WalkIn(s, c, n, l) ==
    /\ n \in ToSet(s) \cup {End}
    /\ l = {} => c \in ToSet(s) \cup {End}
    /\ l = {} /\ c # End => n # c

LEMMA BeginSound ==
    ASSUME NEW s \in Seq(Conn), NEW p, Begin(s, p), IsInjective(s), NEW l
    PROVE  WalkIn(s, cur', next', l) /\ phase' = p
<1>1. phase' = p
  BY DEF Begin
<1>2. CASE s = <<>>
  BY <1>2, <1>1 DEF Begin, WalkIn
<1>3. CASE s # <<>>
  <2>1. Head(s) \in ToSet(s)
    BY <1>3, TailMembers
  <2>2. PICK a : a = After(s, Head(s))
    OBVIOUS
  <2>3. a \in ToSet(s) \cup {End} /\ a # Head(s)
    BY <2>1, <2>2, AfterSound
  <2>4. cur' = Head(s) /\ next' = a
    BY <1>3, <2>2 DEF Begin
  <2> QED BY <1>1, <2>1, <2>3, <2>4 DEF WalkIn
<1> QED BY <1>2, <1>3

LEMMA StepSound ==
    ASSUME NEW oops, Step(oops), inst' \in Insts,
           next \in Conn \cup {End},
           slips' = {} => /\ IsInjective(inst'.conns)
                          /\ IsInjective(inst'.pending)
    PROVE  /\ WalkIn(Listed(inst'), cur', next', slips')
           /\ phase' = phase /\ cur' = next /\ next' \in Conn \cup {End}
           /\ oops \subseteq slips' /\ slips' \subseteq oops \cup {"next unlinked"}
<1>1. PICK s : s = Listed(inst')
  OBVIOUS
<1>2. s \in Seq(Conn) /\ (slips' = {} => IsInjective(s))
  BY <1>1 DEF Listed, Insts
<1>3. /\ cur' = next /\ phase' = phase
      /\ next' = IF next \in ToSet(s) THEN After(s, next) ELSE End
      /\ slips' = oops \cup IF next \in ToSet(s) \cup {End} THEN {}
                            ELSE {"next unlinked"}
  BY <1>1 DEF Step
<1>4. CASE next \in ToSet(s)
  <2>1. PICK a : a = After(s, next)
    OBVIOUS
  <2>2. a \in ToSet(s) \cup {End} /\ (IsInjective(s) => a # next)
    BY <1>2, <1>4, <2>1, AfterSound
  <2>3. next' = a
    BY <1>3, <1>4, <2>1
  <2>4. ToSet(s) \subseteq Conn
    BY <1>2, Members
  <2> QED BY <1>1, <1>2, <1>3, <1>4, <2>2, <2>3, <2>4 DEF WalkIn
<1>5. CASE next \notin ToSet(s)
  <2>1. slips' = {} => next = End
    BY <1>3, <1>5
  <2> QED BY <1>1, <1>3, <1>5, <2>1 DEF WalkIn
<1> QED BY <1>4, <1>5

-----------------------------------------------------------------------------
(* The entries of the coroutines. *)

\* Each coroutine that is alive loses the entry for old and has one for n.
LEMMA AttachSound ==
    ASSUME TypeOK, NEW n \in Conn, NEW old, NEW oops,
           pcintr_attach_renderer(n, old, oops)
    PROVE  /\ att' \in [Crtn -> SUBSET Conn]
           /\ oops \in Attaching
           /\ oops = {} => /\ \A c \in Alive : att'[c] = (att[c] \ {old}) \cup {n}
                           /\ \A c \in Crtn \ Alive : att'[c] = att[c]
<1>1. att \in [Crtn -> SUBSET Conn]
  BY DEF TypeOK
<1>2. ASSUME NEW d PROVE AttachTo(n, old, d) \in [Crtn -> SUBSET Conn]
  <2>1. \A c \in Crtn : /\ (att[c] \ {old}) \cup {n} \in SUBSET Conn
                        /\ att[c] \ {old} \in SUBSET Conn
                        /\ att[c] \in SUBSET Conn
    BY <1>1
  <2> QED BY <2>1 DEF AttachTo
<1>3. PICK w : Concats(w, crtns, stopped)
  BY DEF Concats
<1>4. w \in Seq(Crtn) /\ ToSet(w) = Alive
  BY <1>3, JoinedMembers DEF TypeOK, Alive
<1>5. Order = w
  BY <1>3 DEF Order, Concats
<1>6. \A c : c \in Alive <=> \E i \in 1 .. Len(w) : w[i] = c
  BY <1>4, Members
<1>7. CASE ~ ChildFirst /\ att' = AttachTo(n, old, Len(Order)) /\ oops = {}
  <2>1. att' = [c \in Crtn |->
                  CASE \E i \in 1 .. Len(w) : w[i] = c -> (att[c] \ {old}) \cup {n}
                    [] Len(w) < Len(w) /\ w[Len(w) + 1] = c -> att[c] \ {old}
                    [] OTHER -> att[c]]
    BY <1>5, <1>7 DEF AttachTo
  <2>2. ~ (Len(w) < Len(w))
    BY <1>4
  <2>3. \A c \in Alive : c \in Crtn
    BY <1>4, Members
  <2>4. \A c \in Alive : att'[c] = (att[c] \ {old}) \cup {n}
    BY <1>6, <2>1, <2>3
  <2>5. \A c \in Crtn \ Alive : att'[c] = att[c]
    BY <1>6, <2>1, <2>2
  <2>6. att' \in [Crtn -> SUBSET Conn]
    BY <1>2, <1>7
  <2> QED BY <1>7, <2>4, <2>5, <2>6 DEF Attaching
<1>8. CASE ChildFirst /\ att' = att /\ oops = {"child first"}
  BY <1>1, <1>8 DEF Attaching
<1>9. CASE \E i \in 1 .. Len(Order) :
              /\ ~ ChildFirst /\ ~ Inherits(Order[i])
              /\ att' \in {AttachTo(n, old, i - 1), AttachTo(n, old, i)}
              /\ oops = {"page refused"}
  <2>1. PICK i : att' \in {AttachTo(n, old, i - 1), AttachTo(n, old, i)}
    BY <1>9
  <2>2. oops = {"page refused"}
    BY <1>9
  <2>3. att' \in [Crtn -> SUBSET Conn]
    BY <1>2, <2>1
  <2> QED BY <2>2, <2>3 DEF Attaching
<1> QED BY <1>7, <1>8, <1>9 DEF pcintr_attach_renderer

\* What holds before a step, as behaviours end with a slip.
LEMMA Before ==
    ASSUME IInv, slips = {}, phase # "done"
    PROVE  /\ inst \in Insts /\ inst.origin \in Conn \cup {Null}
           /\ Owns(inst, Usable) /\ Points(inst, Usable) /\ Idle(inst)
           /\ Usable \in SUBSET Conn
           /\ ToSet(inst.conns) \subseteq Usable
           /\ ToSet(inst.conns) \subseteq Conn /\ ToSet(inst.pending) \subseteq Conn
<1>1. /\ inst \in Insts /\ inst.origin \in Conn \cup {Null}
      /\ Owns(inst, Usable) /\ Points(inst, Usable) /\ Idle(inst)
  BY DEF IInv, TypeOK, Insts, OwnsAll, PointsSound, OriginIdle
<1>2. inst.conns \in Seq(Conn) /\ inst.pending \in Seq(Conn)
  BY <1>1 DEF Insts
<1>3. ToSet(inst.conns) \subseteq Conn /\ ToSet(inst.pending) \subseteq Conn
  BY <1>2, Members
<1>4. Usable \in SUBSET Conn
  BY DEF Usable
<1>5. ToSet(inst.conns) \subseteq Usable
  BY <1>1 DEF Owns, Held
<1> QED BY <1>1, <1>3, <1>4, <1>5

LEMMA EntriesBefore ==
    ASSUME IInv, slips = {}, phase # "done"
    PROVE  /\ crtns \in Seq(Crtn) /\ stopped \in Seq(Crtn)
           /\ Alive \subseteq Crtn /\ att \in [Crtn -> SUBSET Conn]
           /\ ToSet(crtns) \cap ToSet(stopped) = {}
           /\ \A c \in Crtn \ Alive : att[c] = {}
           /\ \A c \in Crtn : \A k \in att[c] :
                 k \in ToSet(inst.conns) \/ mem[k] = "cut"
           /\ \A c \in Alive : \A k \in ToSet(inst.conns) :
                 mem[k] = "open" => k \in att[c]
<1>1. crtns \in Seq(Crtn) /\ stopped \in Seq(Crtn) /\ att \in [Crtn -> SUBSET Conn]
  BY DEF IInv, TypeOK
<1>2. Alive \subseteq Crtn
  BY <1>1, Members DEF Alive
<1> QED BY <1>1, <1>2 DEF IInv, CrtnsSound, EntriesSound, Attached

\* Steps that leave the coroutines and their entries alone.
LEMMA EntriesStay ==
    ASSUME IInv, slips = {}, phase # "done",
           crtns' = crtns, stopped' = stopped, att' = att,
           \A k \in ToSet(inst.conns) \ ToSet(inst'.conns) : mem'[k] = "cut",
           \A k \in Conn : mem[k] = "cut" => mem'[k] = "cut",
           \A k \in ToSet(inst'.conns) : k \in ToSet(inst.conns) \/ mem'[k] # "open",
           \A k \in ToSet(inst.conns) : mem'[k] = "open" => mem[k] = "open"
    PROVE  CrtnsSound' /\ EntriesSound' /\ Attached'
<1>1. /\ ToSet(crtns) \cap ToSet(stopped) = {}
      /\ \A c \in Crtn \ Alive : att[c] = {}
      /\ att \in [Crtn -> SUBSET Conn]
  BY EntriesBefore
<1>2. \A c \in Crtn : \A k \in att[c] : k \in ToSet(inst.conns) \/ mem[k] = "cut"
  BY EntriesBefore
<1>3. \A c \in Alive : \A k \in ToSet(inst.conns) : mem[k] = "open" => k \in att[c]
  BY EntriesBefore
<1>4. Alive' = Alive
  BY DEF Alive
<1>5. CrtnsSound'
  BY <1>1, <1>4 DEF CrtnsSound
<1>6. \A c \in Crtn : \A k \in att[c] : k \in ToSet(inst'.conns) \/ mem'[k] = "cut"
  BY <1>1, <1>2
<1>7. EntriesSound'
  BY <1>6 DEF EntriesSound
<1>8. \A c \in Alive : \A k \in ToSet(inst'.conns) : mem'[k] = "open" => k \in att[c]
  BY <1>3
<1>9. Attached'
  BY <1>4, <1>8 DEF Attached
<1> QED BY <1>5, <1>7, <1>9

\* Steps that attach the coroutines to n, and detach them from old.
LEMMA EntriesAttach ==
    ASSUME IInv, slips = {}, phase # "done",
           crtns' = crtns, stopped' = stopped,
           NEW n \in Conn, NEW old, NEW oops, pcintr_attach_renderer(n, old, oops),
           oops \subseteq slips',
           ToSet(inst'.conns) = (ToSet(inst.conns) \ {old}) \cup {n},
           \A k \in Conn \ {n} : mem'[k] = mem[k], mem[n] # "cut"
    PROVE  CrtnsSound' /\ EntriesSound' /\ Attached'
<1>1. TypeOK
  BY DEF IInv
<1>2. /\ att' \in [Crtn -> SUBSET Conn]
      /\ oops \in Attaching
      /\ oops = {} => /\ \A c \in Alive : att'[c] = (att[c] \ {old}) \cup {n}
                      /\ \A c \in Crtn \ Alive : att'[c] = att[c]
  BY <1>1, AttachSound
<1>3. /\ ToSet(crtns) \cap ToSet(stopped) = {}
      /\ \A c \in Crtn \ Alive : att[c] = {}
      /\ att \in [Crtn -> SUBSET Conn] /\ Alive \subseteq Crtn
  BY EntriesBefore
<1>4. Alive' = Alive
  BY DEF Alive
<1>5. CrtnsSound'
  <2> SUFFICES ASSUME slips' = {}
               PROVE  /\ ToSet(crtns') \cap ToSet(stopped') = {}
                      /\ \A c \in Crtn \ Alive' : att'[c] = {}
    BY DEF CrtnsSound
  <2> QED BY <1>2, <1>3, <1>4
<1>6. EntriesSound'
  <2> SUFFICES ASSUME slips' \cap {"late refusal", "page refused", "child first"} = {},
                      NEW c \in Crtn, NEW k \in att'[c]
               PROVE  k \in ToSet(inst'.conns) \/ mem'[k] = "cut"
    BY DEF EntriesSound
  <2>1. oops = {}
    BY <1>2 DEF Attaching
  <2>2. k \in Conn /\ (k = n \/ (k \in att[c] /\ k # old))
    <3>1. c \in Alive
      BY <1>2, <1>3, <2>1
    <3>2. att'[c] = (att[c] \ {old}) \cup {n}
      BY <1>2, <2>1, <3>1
    <3>3. att[c] \in SUBSET Conn
      BY <1>3
    <3> QED BY <3>2, <3>3
  <2>3. k \in att[c] => k \in ToSet(inst.conns) \/ mem[k] = "cut"
    BY EntriesBefore
  <2> QED BY <2>2, <2>3
<1>7. Attached'
  <2> SUFFICES ASSUME slips' \cap {"late refusal", "page refused", "child first",
                                   "parent unattached"} = {},
                      NEW c \in Alive, NEW k \in ToSet(inst'.conns), mem'[k] = "open"
               PROVE  k \in att'[c]
    BY <1>4 DEF Attached
  <2>1. oops = {}
    BY <1>2 DEF Attaching
  <2>2. att'[c] = (att[c] \ {old}) \cup {n}
    BY <1>2, <2>1
  <2>3. CASE k = n
    BY <2>2, <2>3
  <2>4. CASE k # n
    <3>1. k \in ToSet(inst.conns) /\ k # old /\ k \in Conn
      BY <2>4, Before
    <3>2. k \in att[c]
      BY <2>4, <3>1, EntriesBefore
    <3> QED BY <2>2, <3>1, <3>2
  <2> QED BY <2>3, <2>4
<1> QED BY <1>5, <1>6, <1>7

\* Steps that detach all coroutines from k.
LEMMA EntriesDetach ==
    ASSUME IInv, slips = {}, phase # "done",
           crtns' = crtns, stopped' = stopped, NEW k \in Conn, att' = Detached(k),
           ToSet(inst'.conns) = ToSet(inst.conns) \ {k},
           \A q \in Conn \ {k} : mem'[q] = mem[q]
    PROVE  CrtnsSound' /\ EntriesSound' /\ Attached'
<1>1. /\ ToSet(crtns) \cap ToSet(stopped) = {}
      /\ \A c \in Crtn \ Alive : att[c] = {}
      /\ att \in [Crtn -> SUBSET Conn] /\ Alive \subseteq Crtn
  BY EntriesBefore
<1>2. \A c \in Crtn : att'[c] = att[c] \ {k}
  BY DEF Detached
<1>3. Alive' = Alive
  BY DEF Alive
<1>4. CrtnsSound'
  BY <1>1, <1>2, <1>3 DEF CrtnsSound
<1>5. EntriesSound'
  <2> SUFFICES ASSUME NEW c \in Crtn, NEW q \in att'[c]
               PROVE  q \in ToSet(inst'.conns) \/ mem'[q] = "cut"
    BY DEF EntriesSound
  <2>1. q \in Conn /\ q \in att[c] /\ q # k
    BY <1>1, <1>2
  <2>2. q \in ToSet(inst.conns) \/ mem[q] = "cut"
    BY <2>1, EntriesBefore
  <2> QED BY <2>1, <2>2
<1>6. Attached'
  <2> SUFFICES ASSUME NEW c \in Alive, NEW q \in ToSet(inst'.conns), mem'[q] = "open"
               PROVE  q \in att'[c]
    BY <1>3 DEF Attached
  <2>1. q \in ToSet(inst.conns) /\ q # k /\ q \in Conn
    BY Before
  <2>2. q \in att[c]
    BY <2>1, EntriesBefore
  <2> QED BY <1>1, <1>2, <2>1, <2>2
<1> QED BY <1>4, <1>5, <1>6

-----------------------------------------------------------------------------
(* What becomes of the connections. *)

LEMMA OpenSound ==
    ASSUME TypeOK, NEW n \in Fresh, Open(n, "open")
    PROVE  /\ mem' \in [Conn -> {"none", "open", "bare", "freed", "cut"}]
           /\ n \in Conn /\ n \notin Usable /\ Usable' = Usable \cup {n}
           /\ \A k \in Conn \ {n} : mem'[k] = mem[k]
           /\ mem[n] = "none" /\ mem'[n] = "open"
BY DEF TypeOK, Fresh, Open, Usable

LEMMA FreeSound ==
    ASSUME TypeOK, NEW K, NEW s \in {"freed", "cut"}, Free(K, s)
    PROVE  /\ mem' \in [Conn -> {"none", "open", "bare", "freed", "cut"}]
           /\ Usable' = Usable \ K
           /\ \A k \in Conn : mem'[k] = IF k \in K THEN s ELSE mem[k]
BY DEF TypeOK, Free, Usable

-----------------------------------------------------------------------------
(* Steps of programs. *)

LEMMA ConnsStay ==
    ASSUME IInv, slips = {}, phase # "done", inst' = inst, mem' = mem
    PROVE  OwnsAll' /\ PointsSound' /\ OriginIdle'
<1>1. Owns(inst, Usable) /\ Points(inst, Usable) /\ Idle(inst)
  BY Before
<1>2. Usable' = Usable
  BY DEF Usable
<1>3. OwnsAll'
  BY <1>1, <1>2 DEF OwnsAll
<1>4. PointsSound'
  BY <1>1, <1>2 DEF PointsSound
<1>5. OriginIdle'
  BY <1>1 DEF OriginIdle
<1> QED BY <1>3, <1>4, <1>5

\* No walk is under way.
LEMMA NoWalk ==
    ASSUME phase' \notin {"pending", "conns"}
    PROVE  WalkSound'
BY DEF WalkSound

LEMMA StopKeeps ==
    ASSUME IInv, NEW c \in Crtn, Stop(c)
    PROVE  IInv'
<1>1. /\ phase = "steps" /\ slips = {} /\ c \in ToSet(crtns)
      /\ crtns' = Without(crtns, {c}) /\ stopped' = Append(stopped, c)
      /\ news' = "none" /\ inst' = inst /\ mem' = mem /\ late' = late /\ stuck' = stuck
      /\ att' = att /\ phase' = phase /\ cur' = cur /\ next' = next /\ slips' = slips
  BY DEF Stop, InSteps, env, pass
<1>2. crtns \in Seq(Crtn) /\ stopped \in Seq(Crtn)
  BY <1>1, EntriesBefore
<1>3. PICK u : Unlinked(u, crtns, {c})
  BY DEF Unlinked
<1>4. u \in Seq(Crtn) /\ ToSet(u) = ToSet(crtns) \ {c}
  BY <1>2, <1>3, UnlinkedConns
<1>5. PICK w : Appended(stopped, c, w)
  BY DEF Appended
<1>6. w \in Seq(Crtn) /\ ToSet(w) = ToSet(stopped) \cup {c}
  BY <1>2, <1>5, AppendedMembers
<1>7. crtns' = u /\ stopped' = w
  BY <1>1, <1>3, <1>5 DEF Unlinked, Appended
<1>8. TypeOK'
  BY <1>1, <1>4, <1>6, <1>7 DEF IInv, TypeOK, News
<1>9. Alive' = Alive
  BY <1>1, <1>4, <1>6, <1>7 DEF Alive
<1>10. OwnsAll' /\ PointsSound' /\ OriginIdle' /\ inst'.origin \in Conn \cup {Null}
  BY <1>1, ConnsStay DEF IInv
<1>11. CrtnsSound'
  <2>1. ToSet(crtns) \cap ToSet(stopped) = {} /\ \A d \in Crtn \ Alive : att[d] = {}
    BY <1>1, EntriesBefore
  <2> QED BY <1>1, <1>4, <1>6, <1>7, <1>9, <2>1 DEF CrtnsSound
<1>12. EntriesSound' /\ Attached'
  BY <1>1, <1>9 DEF IInv, EntriesSound, Attached
<1>13. WalkSound'
  BY <1>1, NoWalk
<1> QED BY <1>8, <1>10, <1>11, <1>12, <1>13 DEF IInv

LEMMA ResumeKeeps ==
    ASSUME IInv, NEW c \in Crtn, Resume(c)
    PROVE  IInv'
<1>1. /\ phase \in {"steps", "events"} /\ slips = {} /\ c \in ToSet(stopped)
      /\ stopped' = Without(stopped, {c}) /\ crtns' = Append(crtns, c)
      /\ news' = "none" /\ inst' = inst /\ mem' = mem /\ late' = late /\ stuck' = stuck
      /\ att' = att /\ phase' = phase /\ cur' = cur /\ next' = next /\ slips' = slips
  BY DEF Resume, Handling, env, pass
<1>2. crtns \in Seq(Crtn) /\ stopped \in Seq(Crtn)
  BY <1>1, EntriesBefore
<1>3. PICK u : Unlinked(u, stopped, {c})
  BY DEF Unlinked
<1>4. u \in Seq(Crtn) /\ ToSet(u) = ToSet(stopped) \ {c}
  BY <1>2, <1>3, UnlinkedConns
<1>5. PICK w : Appended(crtns, c, w)
  BY DEF Appended
<1>6. w \in Seq(Crtn) /\ ToSet(w) = ToSet(crtns) \cup {c}
  BY <1>2, <1>5, AppendedMembers
<1>7. stopped' = u /\ crtns' = w
  BY <1>1, <1>3, <1>5 DEF Unlinked, Appended
<1>8. TypeOK'
  BY <1>1, <1>4, <1>6, <1>7 DEF IInv, TypeOK, News
<1>9. Alive' = Alive
  BY <1>1, <1>4, <1>6, <1>7 DEF Alive
<1>10. OwnsAll' /\ PointsSound' /\ OriginIdle' /\ inst'.origin \in Conn \cup {Null}
  BY <1>1, ConnsStay DEF IInv
<1>11. CrtnsSound'
  <2>1. ToSet(crtns) \cap ToSet(stopped) = {} /\ \A d \in Crtn \ Alive : att[d] = {}
    BY <1>1, EntriesBefore
  <2> QED BY <1>1, <1>4, <1>6, <1>7, <1>9, <2>1 DEF CrtnsSound
<1>12. EntriesSound' /\ Attached'
  BY <1>1, <1>9 DEF IInv, EntriesSound, Attached
<1>13. WalkSound'
  BY <1>1, NoWalk
<1> QED BY <1>8, <1>10, <1>11, <1>12, <1>13 DEF IInv

LEMMA DestroyKeeps ==
    ASSUME IInv, NEW c \in Crtn, coroutine_destroy(c)
    PROVE  IInv'
<1>1. /\ phase \in {"steps", "events"} /\ slips = {} /\ c \in ToSet(crtns)
      /\ crtns' = Without(crtns, {c}) /\ stopped' = stopped
      /\ att' = [att EXCEPT ![c] = {}]
      /\ news' = "none" /\ inst' = inst /\ mem' = mem /\ late' = late /\ stuck' = stuck
      /\ phase' = phase /\ cur' = cur /\ next' = next /\ slips' = slips
  BY DEF coroutine_destroy, Handling, env, pass
<1>2. crtns \in Seq(Crtn) /\ stopped \in Seq(Crtn) /\ att \in [Crtn -> SUBSET Conn]
  BY <1>1, EntriesBefore
<1>3. PICK u : Unlinked(u, crtns, {c})
  BY DEF Unlinked
<1>4. u \in Seq(Crtn) /\ ToSet(u) = ToSet(crtns) \ {c}
  BY <1>2, <1>3, UnlinkedConns
<1>5. crtns' = u
  BY <1>1, <1>3 DEF Unlinked
<1>6. /\ att' \in [Crtn -> SUBSET Conn]
      /\ \A d \in Crtn : att'[d] = IF d = c THEN {} ELSE att[d]
  BY <1>1, <1>2
<1>7. TypeOK'
  BY <1>1, <1>2, <1>4, <1>5, <1>6 DEF IInv, TypeOK, News
<1>8. /\ ToSet(crtns) \cap ToSet(stopped) = {} /\ \A d \in Crtn \ Alive : att[d] = {}
      /\ Alive \subseteq Crtn
  BY <1>1, EntriesBefore
<1>9. Alive' = Alive \ {c}
  BY <1>1, <1>4, <1>5, <1>8 DEF Alive
<1>10. OwnsAll' /\ PointsSound' /\ OriginIdle' /\ inst'.origin \in Conn \cup {Null}
  BY <1>1, ConnsStay DEF IInv
<1>11. CrtnsSound'
  BY <1>1, <1>4, <1>5, <1>6, <1>8, <1>9 DEF CrtnsSound
<1>12. EntriesSound'
  BY <1>1, <1>6 DEF IInv, EntriesSound
<1>13. Attached'
  BY <1>1, <1>6, <1>8, <1>9 DEF IInv, Attached
<1>14. WalkSound'
  BY <1>1, NoWalk
<1> QED BY <1>7, <1>10, <1>11, <1>12, <1>13, <1>14 DEF IInv

LEMMA ScheduleKeeps ==
    ASSUME IInv, NEW c \in Crtn, purc_schedule_vdom(c)
    PROVE  IInv'
<1> DEFINE all == ToSet(inst.conns) \cup {inst.main}
<1>1. /\ phase = "steps" /\ slips = {} /\ c \notin Alive
      /\ crtns' = Append(crtns, c) /\ stopped' = stopped
      /\ news' = "none" /\ inst' = inst /\ mem' = mem /\ late' = late /\ stuck' = stuck
      /\ phase' = phase /\ cur' = cur /\ next' = next
  BY DEF purc_schedule_vdom, InSteps, env, pass
<1>2. \E K : /\ att' = [att EXCEPT ![c] = K] /\ K \subseteq all \ {Null}
             /\ \/ K = all /\ slips' = {}
                \/ slips' = {"page refused"}
                \/ slips' = {"parent unattached"}
  <2>1. /\ slips = {}
        /\ ToSet(inst.conns) \subseteq Conn /\ Null \notin Conn
        /\ att = [att EXCEPT ![c] = att[c]] /\ att[c] = {}
    BY <1>1, Before, EntriesBefore, NullsApart
  <2>2. CASE /\ inst.main # Null /\ att' = [att EXCEPT ![c] = all]
             /\ slips' = slips
    BY <2>1, <2>2
  <2>3. CASE att' = att /\ slips' = {"parent unattached"}
    BY <2>1, <2>3
  <2>4. CASE \E K \in SUBSET (all \ {inst.main}) :
               /\ inst.main # Null /\ att' = [att EXCEPT ![c] = all \ K]
               /\ slips' = {"page refused"}
    BY <2>1, <2>4
  <2>5. CASE /\ att' = [att EXCEPT ![c] = {inst.main} \ {Null}]
             /\ slips' = {"page refused"}
    BY <2>1, <2>5
  <2> QED BY <2>2, <2>3, <2>4, <2>5 DEF purc_schedule_vdom
<1>3. PICK K : /\ att' = [att EXCEPT ![c] = K] /\ K \subseteq all \ {Null}
               /\ \/ K = all /\ slips' = {}
                  \/ slips' = {"page refused"}
                  \/ slips' = {"parent unattached"}
  BY <1>2
<1>4. crtns \in Seq(Crtn) /\ stopped \in Seq(Crtn) /\ att \in [Crtn -> SUBSET Conn]
  BY <1>1, EntriesBefore
<1>5. inst.main \in ToSet(inst.conns) \cup {Null} /\ ToSet(inst.conns) \subseteq Conn
  BY <1>1, Before DEF Points
<1>6. PICK w : Appended(crtns, c, w)
  BY DEF Appended
<1>7. w \in Seq(Crtn) /\ ToSet(w) = ToSet(crtns) \cup {c}
  BY <1>4, <1>6, AppendedMembers
<1>8. crtns' = w
  BY <1>1, <1>6 DEF Appended
<1>9. /\ att' \in [Crtn -> SUBSET Conn]
      /\ \A d \in Crtn : att'[d] = IF d = c THEN K ELSE att[d]
  <2>1. K \in SUBSET Conn
    BY <1>3, <1>5
  <2> QED BY <1>3, <1>4, <2>1
<1>10. TypeOK'
  <2>1. slips' \subseteq Slips
    BY <1>3 DEF Slips
  <2> QED BY <1>1, <1>4, <1>7, <1>8, <1>9, <2>1 DEF IInv, TypeOK, News
<1>11. /\ ToSet(crtns) \cap ToSet(stopped) = {} /\ \A d \in Crtn \ Alive : att[d] = {}
       /\ Alive \subseteq Crtn
  BY <1>1, EntriesBefore
<1>12. Alive' = Alive \cup {c}
  BY <1>1, <1>7, <1>8 DEF Alive
<1>13. OwnsAll' /\ PointsSound' /\ OriginIdle' /\ inst'.origin \in Conn \cup {Null}
  BY <1>1, ConnsStay DEF IInv
<1>14. CrtnsSound'
  BY <1>1, <1>7, <1>8, <1>9, <1>11, <1>12 DEF CrtnsSound, Alive
<1>15. EntriesSound'
  <2> SUFFICES ASSUME NEW d \in Crtn, NEW k \in att'[d]
               PROVE  k \in ToSet(inst.conns) \/ mem[k] = "cut"
    BY <1>1 DEF EntriesSound
  <2>1. CASE d = c
    BY <1>3, <1>5, <1>9, <2>1
  <2>2. CASE d # c
    BY <1>1, <1>9, <2>2, EntriesBefore
  <2> QED BY <2>1, <2>2
<1>16. Attached'
  <2> SUFFICES ASSUME slips' = {}, NEW d \in Alive', NEW k \in ToSet(inst.conns),
                      mem[k] = "open"
               PROVE  k \in att'[d]
    BY <1>1, <1>3 DEF Attached
  <2>1. CASE d = c
    BY <1>3, <1>9, <2>1
  <2>2. CASE d # c
    <3>1. d \in Alive /\ d \in Crtn
      BY <1>11, <1>12, <2>2
    <3> QED BY <1>1, <1>9, <2>2, <3>1, EntriesBefore
  <2> QED BY <2>1, <2>2
<1>17. WalkSound'
  BY <1>1, NoWalk
<1> QED BY <1>10, <1>13, <1>14, <1>15, <1>16, <1>17 DEF IInv

LEMMA ConnectKeeps ==
    ASSUME IInv, NEW n \in Conn, purc_connect_to_renderer(n)
    PROVE  IInv'
<1>1. /\ phase = "steps" /\ slips = {} /\ n \in Fresh /\ Open(n, "open")
      /\ inst' = AddConn(inst, n) /\ news' = "newDuplicate"
      /\ slips' \in Attaching /\ pcintr_attach_renderer(n, Null, slips')
      /\ late' = late /\ stuck' = stuck /\ crtns' = crtns /\ stopped' = stopped
      /\ phase' = phase /\ cur' = cur /\ next' = next
  BY DEF purc_connect_to_renderer, InSteps, env, pass
<1>2. TypeOK
  BY DEF IInv
<1>3. /\ mem' \in [Conn -> {"none", "open", "bare", "freed", "cut"}]
      /\ n \notin Usable /\ Usable' = Usable \cup {n}
      /\ \A k \in Conn \ {n} : mem'[k] = mem[k]
      /\ mem[n] = "none"
  BY <1>1, <1>2, OpenSound
<1>4. /\ inst \in Insts /\ Owns(inst, Usable) /\ Points(inst, Usable) /\ Idle(inst)
      /\ Usable \in SUBSET Conn /\ inst.origin \in Conn \cup {Null}
      /\ ToSet(inst.conns) \subseteq Conn
  BY <1>1, Before
<1>5. /\ inst' \in Insts /\ inst'.origin = inst.origin
      /\ ToSet(inst'.conns) = ToSet(inst.conns) \cup {n}
  BY <1>1, <1>4, AddConnSound
<1>6. Owns(inst', Usable') /\ Points(inst', Usable') /\ Idle(inst')
  BY <1>1, <1>3, <1>4, AddKeeps
<1>7. att' \in [Crtn -> SUBSET Conn]
  BY <1>1, <1>2, AttachSound
<1>8. CrtnsSound' /\ EntriesSound' /\ Attached'
  <2>1. ToSet(inst'.conns) = (ToSet(inst.conns) \ {Null}) \cup {n}
    BY <1>4, <1>5, NullsApart
  <2> QED BY <1>1, <1>3, <2>1, EntriesAttach
<1>9. TypeOK'
  <2>1. slips' \subseteq Slips /\ news' \in News
    BY <1>1 DEF Attaching, Slips, News
  <2> QED BY <1>1, <1>2, <1>3, <1>5, <1>7, <2>1 DEF TypeOK, Insts
<1>10. OwnsAll' /\ PointsSound' /\ OriginIdle' /\ inst'.origin \in Conn \cup {Null}
  BY <1>4, <1>5, <1>6 DEF OwnsAll, PointsSound, OriginIdle
<1>11. WalkSound'
  BY <1>1, NoWalk
<1> QED BY <1>8, <1>9, <1>10, <1>11 DEF IInv

\* A connection of a list is freed, for a revocation or a loss.
LEMMA DropSound ==
    ASSUME IInv, slips = {}, phase # "done", NEW k \in Conn, DropConn(k),
           k \in ToSet(inst.conns) \cup ToSet(inst.pending),
           crtns' = crtns, stopped' = stopped, MainLost(inst') \subseteq slips',
           NEW U, U = Usable \ {k}
    PROVE  /\ inst' \in Insts /\ inst'.origin \in Conn \cup {Null}
           /\ mem' \in [Conn -> {"none", "open", "bare", "freed", "cut"}]
           /\ Usable' = U /\ late' = late /\ stuck' = stuck \ {k}
           /\ att' \in [Crtn -> SUBSET Conn]
           /\ MainLost(inst') \in {{}, {"no renderer left"}, {"pending main"}}
           /\ Owns(inst', U)
           /\ OwnsAll' /\ PointsSound' /\ OriginIdle'
           /\ CrtnsSound' /\ EntriesSound' /\ Attached'
<1>1. /\ att' = Detached(k) /\ Free({k}, "freed") /\ Forgets(inst', inst, k)
      /\ stuck' = stuck \ {k} /\ late' = late
  BY DEF DropConn, Forgets
<1>2. /\ inst \in Insts /\ inst.origin \in Conn \cup {Null}
      /\ Owns(inst, Usable) /\ Points(inst, Usable) /\ Idle(inst)
      /\ Usable \in SUBSET Conn
  BY Before
<1>3. inst' \in Insts
  BY <1>1, <1>2, ForgetSound
<1>4. inst'.origin = inst.origin
  BY <1>1, <1>2, ForgetSound
<1>5. ToSet(inst'.conns) = ToSet(inst.conns) \ {k}
  BY <1>1, <1>2, ForgetSound
<1>6. Owns(inst', U) /\ (MainLost(inst') = {} => Points(inst', U) /\ Idle(inst'))
  <2>1. Owns(inst', Usable \ {k})
    BY <1>1, <1>2, ForgetKeeps
  <2>2. MainLost(inst') = {} => Points(inst', Usable \ {k})
    BY <1>1, <1>2, ForgetKeeps
  <2>3. MainLost(inst') = {} => Idle(inst')
    BY <1>1, <1>2, ForgetKeeps
  <2> QED BY <2>1, <2>2, <2>3
<1>7. /\ mem' \in [Conn -> {"none", "open", "bare", "freed", "cut"}]
      /\ Usable' = U
      /\ \A q \in Conn \ {k} : mem'[q] = mem[q]
  BY <1>1, FreeSound DEF IInv
<1>8. att' \in [Crtn -> SUBSET Conn]
  <2>1. att \in [Crtn -> SUBSET Conn]
    BY DEF IInv, TypeOK
  <2>2. \A c \in Crtn : att[c] \ {k} \in SUBSET Conn
    BY <2>1
  <2> QED BY <1>1, <2>2 DEF Detached
<1>9. CrtnsSound' /\ EntriesSound' /\ Attached'
  BY <1>1, <1>5, <1>7, EntriesDetach
<1>10. MainLost(inst') \in {{}, {"no renderer left"}, {"pending main"}}
  BY DEF MainLost
<1>11. OwnsAll'
  BY <1>6, <1>7 DEF OwnsAll
<1>12. PointsSound'
  <2> SUFFICES ASSUME slips' \cap PointerSlips = {} PROVE Points(inst', Usable')
    BY DEF PointsSound
  <2>1. MainLost(inst') = {}
    BY <1>10 DEF PointerSlips
  <2> QED BY <1>6, <1>7, <2>1
<1>13. OriginIdle'
  <2> SUFFICES ASSUME slips' = {} PROVE Idle(inst')
    BY DEF OriginIdle
  <2>1. MainLost(inst') = {}
    BY <1>10
  <2> QED BY <1>6, <2>1
<1> QED BY <1>1, <1>2, <1>3, <1>4, <1>6, <1>7, <1>8, <1>9, <1>10, <1>11, <1>12, <1>13

\* Finding a connection without a uid changes nothing, but no step follows.
LEMMA SearchFailsKeeps ==
    ASSUME IInv, slips = {}, phase \notin {"pending", "conns", "done"},
           UNCHANGED <<inst, mem, env, heap, pass>>,
           slips' = {"null uid"}, news' = "none"
    PROVE  IInv'
<1>1. /\ late' = late /\ inst' = inst /\ mem' = mem
      /\ stuck' = stuck /\ crtns' = crtns /\ stopped' = stopped /\ att' = att
      /\ phase' = phase /\ cur' = cur /\ next' = next
  BY DEF env, heap, pass
<1>2. TypeOK' /\ inst'.origin \in Conn \cup {Null}
  BY <1>1 DEF IInv, TypeOK, Slips, News
<1>3. Alive' = Alive
  BY <1>1 DEF Alive
<1>4. OwnsAll' /\ PointsSound' /\ OriginIdle'
  BY <1>1, ConnsStay
<1>5. WalkSound'
  BY <1>1, NoWalk
<1>6. CrtnsSound'
  BY DEF CrtnsSound
<1>7. EntriesSound' /\ Attached'
  BY <1>1, <1>3 DEF IInv, EntriesSound, Attached
<1> QED BY <1>2, <1>4, <1>5, <1>6, <1>7 DEF IInv

LEMMA DisconnectKeeps ==
    ASSUME IInv, NEW k \in Conn, purc_disconnect_from_renderer(k)
    PROVE  IInv'
<1>1. /\ phase = "steps" /\ slips = {} /\ k \in ToSet(inst.conns)
      /\ crtns' = crtns /\ stopped' = stopped
      /\ phase' = phase /\ cur' = cur /\ next' = next
  BY DEF purc_disconnect_from_renderer, InSteps, pass
<1>2. CASE DropConn(k) /\ slips' = MainLost(inst') /\ news' = "lostDuplicate"
  <2>1. PICK U : U = Usable \ {k}
    OBVIOUS
  <2>2. /\ inst' \in Insts /\ inst'.origin \in Conn \cup {Null}
        /\ mem' \in [Conn -> {"none", "open", "bare", "freed", "cut"}]
        /\ late' = late /\ stuck' = stuck \ {k}
        /\ att' \in [Crtn -> SUBSET Conn]
        /\ MainLost(inst') \in {{}, {"no renderer left"}, {"pending main"}}
    BY <1>1, <1>2, <2>1, DropSound
  <2>3. /\ OwnsAll' /\ PointsSound' /\ OriginIdle'
        /\ CrtnsSound' /\ EntriesSound' /\ Attached'
    BY <1>1, <1>2, <2>1, DropSound
  <2>4. TypeOK'
    <3>1. slips' \subseteq Slips /\ news' \in News
      BY <1>2, <2>2 DEF Slips, News
    <3>2. TypeOK
      BY DEF IInv
    <3> QED BY <1>1, <2>2, <3>1, <3>2 DEF TypeOK, Insts
  <2>5. WalkSound'
    BY <1>1, NoWalk
  <2> QED BY <2>2, <2>3, <2>4, <2>5 DEF IInv
<1>3. CASE UNCHANGED <<inst, mem, env, att>> /\ slips' = {"null uid"} /\ news' = "none"
  <2>1. UNCHANGED <<inst, mem, env, heap, pass>>
    BY <1>1, <1>3 DEF heap, pass
  <2> QED BY <1>1, <1>3, <2>1, SearchFailsKeeps
<1> QED BY <1>2, <1>3 DEF purc_disconnect_from_renderer

LEMMA DisconnectGetterKeeps ==
    ASSUME IInv, disconnect_getter
    PROVE  IInv'
<1>1. /\ phase = "steps" /\ slips = {} /\ inst.main # Null
      /\ Free({inst.main}, "cut") /\ inst' = CutMain(inst) /\ news' = "none"
      /\ late' = late /\ stuck' = stuck
      /\ crtns' = crtns /\ stopped' = stopped /\ att' = att
      /\ phase' = phase /\ cur' = cur /\ next' = next /\ slips' = slips
  BY DEF disconnect_getter, InSteps, env, heap, pass
<1>2. TypeOK
  BY DEF IInv
<1>3. /\ inst \in Insts /\ Owns(inst, Usable) /\ Points(inst, Usable) /\ Idle(inst)
      /\ Usable \in SUBSET Conn /\ inst.origin \in Conn \cup {Null}
      /\ ToSet(inst.conns) \subseteq Conn
  BY <1>1, Before
<1>4. /\ inst' \in Insts
      /\ ToSet(inst'.conns) = ToSet(inst.conns) \ {inst.main}
      /\ inst'.origin = inst.origin
  BY <1>1, <1>3, CutMainKeeps
<1>5. /\ mem' \in [Conn -> {"none", "open", "bare", "freed", "cut"}]
      /\ Usable' = Usable \ {inst.main}
      /\ \A k \in Conn : mem'[k] = IF k \in {inst.main} THEN "cut" ELSE mem[k]
  BY <1>1, <1>2, FreeSound
<1>6. Owns(inst', Usable') /\ Points(inst', Usable') /\ Idle(inst')
  BY <1>1, <1>3, <1>5, CutMainKeeps
<1>7. CrtnsSound' /\ EntriesSound' /\ Attached'
  <2>1. \A k \in ToSet(inst.conns) \ ToSet(inst'.conns) : mem'[k] = "cut"
    BY <1>3, <1>4, <1>5
  <2>2. /\ \A k \in Conn : mem[k] = "cut" => mem'[k] = "cut"
        /\ \A k \in ToSet(inst'.conns) : k \in ToSet(inst.conns) \/ mem'[k] # "open"
        /\ \A k \in ToSet(inst.conns) : mem'[k] = "open" => mem[k] = "open"
    BY <1>3, <1>4, <1>5
  <2> QED BY <1>1, <2>1, <2>2, EntriesStay
<1>8. TypeOK'
  BY <1>1, <1>2, <1>4, <1>5 DEF TypeOK, Insts, News
<1>9. OwnsAll' /\ PointsSound' /\ OriginIdle' /\ inst'.origin \in Conn \cup {Null}
  BY <1>3, <1>4, <1>6 DEF OwnsAll, PointsSound, OriginIdle
<1>10. WalkSound'
  BY <1>1, NoWalk
<1> QED BY <1>7, <1>8, <1>9, <1>10 DEF IInv

LEMMA ConnectGetterKeeps ==
    ASSUME IInv, NEW n \in Conn, connect_getter(n)
    PROVE  IInv'
<1>1. /\ phase = "steps" /\ slips = {} /\ n \in Fresh
      /\ mem' = [k \in Conn |-> CASE k = n -> "bare" [] k = inst.main -> "cut"
                                  [] OTHER -> mem[k]]
      /\ news' = "none" /\ late' = late /\ stuck' = stuck
      /\ crtns' = crtns /\ stopped' = stopped /\ att' = att
      /\ phase' = phase /\ cur' = cur /\ next' = next
  BY DEF connect_getter, InSteps, env, heap, pass
<1>2. PICK i : i = CutMain(inst)
  OBVIOUS
<1>3. \/ inst' = AddConn(i, n) /\ slips' = {}
      \/ inst' = [i EXCEPT !.main = n] /\ slips' = {"unlisted main"}
  BY <1>1, <1>2 DEF connect_getter
<1>4. TypeOK /\ mem \in [Conn -> {"none", "open", "bare", "freed", "cut"}]
  BY DEF IInv, TypeOK
<1>5. /\ inst \in Insts /\ Owns(inst, Usable) /\ Points(inst, Usable) /\ Idle(inst)
      /\ Usable \in SUBSET Conn /\ inst.origin \in Conn \cup {Null}
      /\ ToSet(inst.conns) \subseteq Conn /\ ToSet(inst.conns) \subseteq Usable
  BY <1>1, Before
<1>6. PICK U \in SUBSET Conn : U = Usable \ {inst.main}
  BY <1>5
<1>7. /\ i \in Insts /\ inst.main \in Conn \cup {Null}
      /\ ToSet(i.conns) = ToSet(inst.conns) \ {inst.main}
      /\ i.main = Null /\ i.origin = inst.origin
  BY <1>2, <1>5, CutMainKeeps
<1>8. Owns(i, U) /\ Points(i, U) /\ Idle(i)
  BY <1>2, <1>5, <1>6, CutMainKeeps
<1>9. n \notin Usable /\ mem[n] = "none" /\ n # inst.main
  <2>1. n \notin Usable /\ mem[n] = "none"
    BY <1>1 DEF Fresh, Usable
  <2>2. inst.main \in Usable \cup {Null}
    BY <1>5 DEF Points
  <2> QED BY <2>1, <2>2, NullsApart
<1>10. /\ mem' \in [Conn -> {"none", "open", "bare", "freed", "cut"}]
       /\ \A k \in Conn : mem'[k] = IF k = n THEN "bare"
                                    ELSE IF k = inst.main THEN "cut" ELSE mem[k]
  <2>1. ASSUME NEW k \in Conn
        PROVE  (CASE k = n -> "bare" [] k = inst.main -> "cut" [] OTHER -> mem[k])
                  = IF k = n THEN "bare" ELSE IF k = inst.main THEN "cut" ELSE mem[k]
    BY <1>9
  <2>2. mem' = [k \in Conn |-> IF k = n THEN "bare"
                               ELSE IF k = inst.main THEN "cut" ELSE mem[k]]
    BY <1>1, <2>1, Zenon
  <2> QED BY <1>4, <2>2
<1>11. Usable' = U \cup {n}
  BY <1>6, <1>9, <1>10 DEF Usable
<1>12. /\ inst' \in Insts /\ inst'.origin = inst.origin
       /\ ToSet(inst'.conns) \subseteq ToSet(i.conns) \cup {n}
       /\ ToSet(i.conns) \subseteq ToSet(inst'.conns)
  <2>1. CASE inst' = AddConn(i, n)
    <3>1. i \in Insts
      BY <1>7
    <3>2. inst' \in Insts /\ inst'.origin = i.origin
      BY <2>1, <3>1, AddConnSound
    <3>3. ToSet(inst'.conns) = ToSet(i.conns) \cup {n}
      BY <2>1, <3>1, AddConnSound
    <3> QED BY <1>7, <3>2, <3>3
  <2>2. CASE inst' = [i EXCEPT !.main = n]
    BY <1>7, <2>2 DEF Insts, Entry
  <2> QED BY <1>3, <2>1, <2>2
<1>13. OwnsAll' /\ PointsSound' /\ OriginIdle' /\ inst'.origin \in Conn \cup {Null}
  <2>1. CASE inst' = AddConn(i, n)
    <3>1. Owns(inst', U \cup {n}) /\ Points(inst', U \cup {n}) /\ Idle(inst')
      BY <1>6, <1>7, <1>8, <1>9, <2>1, AddKeeps
    <3> QED BY <1>5, <1>11, <1>12, <3>1 DEF OwnsAll, PointsSound, OriginIdle
  <2>2. CASE slips' = {"unlisted main"}
    BY <1>5, <1>12, <2>2
      DEF OwnsAll, PointsSound, OriginIdle, OwnedSlips, PointerSlips
  <2> QED BY <1>3, <2>1, <2>2
<1>14. CrtnsSound' /\ EntriesSound' /\ Attached'
  <2>1. \A k \in ToSet(inst.conns) \ ToSet(inst'.conns) : mem'[k] = "cut"
    BY <1>5, <1>7, <1>9, <1>10, <1>12
  <2>2. \A k \in Conn : mem[k] = "cut" => mem'[k] = "cut"
    BY <1>9, <1>10
  <2>3. \A k \in ToSet(inst'.conns) : k \in ToSet(inst.conns) \/ mem'[k] # "open"
    BY <1>7, <1>10, <1>12
  <2>4. \A k \in ToSet(inst.conns) : mem'[k] = "open" => mem[k] = "open"
    BY <1>5, <1>10
  <2> QED BY <1>1, <2>1, <2>2, <2>3, <2>4, EntriesStay
<1>15. TypeOK'
  <2>1. slips' \subseteq Slips /\ news' \in News
    BY <1>1, <1>3 DEF Slips, News
  <2> QED BY <1>1, <1>4, <1>10, <1>12, <2>1 DEF TypeOK, Insts
<1>16. WalkSound'
  BY <1>1, NoWalk
<1> QED BY <1>13, <1>14, <1>15, <1>16 DEF IInv

-----------------------------------------------------------------------------
(* Steps of the scheduler, and of the clock. *)

LEMMA CleanSound ==
    ASSUME IInv, Clean
    PROVE  IInv'
<1> DEFINE D == {k \in ToSet(inst.closing) : ToClose(k)}
           K == ({inst.origin} \ {Null}) \cup D
<1>1. /\ phase = "clean" /\ slips = {} /\ phase' = "steps" /\ Free(K, "freed")
      /\ inst' = [inst EXCEPT !.origin = Null, !.closing = Without(@, K)]
      /\ slips' = IF inst.curr \in K \ {inst.origin} THEN {"current closed"} ELSE {}
      /\ news' = "none" /\ late' = late /\ stuck' = stuck
      /\ crtns' = crtns /\ stopped' = stopped /\ att' = att
      /\ cur' = cur /\ next' = next
  BY DEF Clean, env, heap
<1>2. D \in SUBSET ToSet(inst.closing)
  OBVIOUS
<1> HIDE DEF D
<1>3. TypeOK
  BY DEF IInv
<1>4. /\ inst \in Insts /\ Owns(inst, Usable) /\ Points(inst, Usable) /\ Idle(inst)
      /\ Usable \in SUBSET Conn /\ ToSet(inst.conns) \subseteq Conn
  BY <1>1, Before
<1>5. K \subseteq Usable
  BY <1>2, <1>4 DEF Owns, Held
<1>6. PICK L, U : L = K /\ U = Usable \ K
  OBVIOUS
<1>7. Null \notin D
  <2>1. inst.closing \in Seq(Conn)
    BY <1>4 DEF Insts
  <2> QED BY <1>2, <2>1, Members, NullsApart
<1>8. Cleans(inst', inst, L)
  BY <1>1, <1>2, <1>6, <1>7 DEF Cleans
<1> HIDE DEF K
<1>9. /\ inst' \in Insts /\ inst'.conns = inst.conns /\ inst'.origin = Null
      /\ L \cap ToSet(inst.conns) = {}
      /\ Owns(inst', Usable \ L) /\ Idle(inst')
      /\ inst.curr \notin L \ {inst.origin} => Points(inst', Usable \ L)
  <2>1. inst' \in Insts /\ inst'.conns = inst.conns /\ inst'.origin = Null
    BY <1>4, <1>8, CleanKeeps
  <2>2. L \cap ToSet(inst.conns) = {}
    BY <1>4, <1>8, CleanKeeps
  <2>3. Owns(inst', Usable \ L) /\ Idle(inst')
    BY <1>4, <1>8, CleanKeeps
  <2>4. inst.curr \notin L \ {inst.origin} => Points(inst', Usable \ L)
    BY <1>4, <1>8, CleanKeeps
  <2> QED BY <2>1, <2>2, <2>3, <2>4
<1>10. /\ mem' \in [Conn -> {"none", "open", "bare", "freed", "cut"}]
       /\ Usable' = U
       /\ \A k \in Conn : mem'[k] = IF k \in L THEN "freed" ELSE mem[k]
  BY <1>1, <1>3, <1>6, FreeSound
<1>11. TypeOK'
  <2>1. slips' \subseteq Slips /\ news' \in News /\ phase' \in Phases
    BY <1>1 DEF Slips, News, Phases
  <2> QED BY <1>1, <1>3, <1>9, <1>10, <2>1 DEF TypeOK, Insts
<1>12. OwnsAll' /\ PointsSound' /\ OriginIdle' /\ inst'.origin \in Conn \cup {Null}
  <2>1. slips' \cap PointerSlips = {} => inst.curr \notin L \ {inst.origin}
    BY <1>1, <1>6 DEF PointerSlips
  <2> QED BY <1>6, <1>9, <1>10, <2>1 DEF OwnsAll, PointsSound, OriginIdle
<1>13. CrtnsSound' /\ EntriesSound' /\ Attached'
  <2>1. \A k \in Conn : mem[k] = "cut" => mem'[k] = "cut"
    BY <1>5, <1>6, <1>10 DEF Usable
  <2>2. \A k \in ToSet(inst.conns) : mem'[k] = mem[k]
    BY <1>4, <1>9, <1>10
  <2> QED BY <1>1, <1>9, <2>1, <2>2, EntriesStay
<1>14. WalkSound'
  BY <1>1, NoWalk
<1> QED BY <1>11, <1>12, <1>13, <1>14 DEF IInv

LEMMA WalkKeeps ==
    ASSUME IInv, Walk
    PROVE  IInv'
<1>1. /\ slips = {} /\ phase # "done"
      /\ news' = "none" /\ inst' = inst /\ mem' = mem /\ late' = late /\ stuck' = stuck
      /\ crtns' = crtns /\ stopped' = stopped /\ att' = att /\ slips' = slips
  BY DEF Walk, env, heap, Begin
<1>2. OwnsAll' /\ PointsSound' /\ OriginIdle' /\ inst'.origin \in Conn \cup {Null}
  BY <1>1, ConnsStay DEF IInv
<1>3. CrtnsSound' /\ EntriesSound' /\ Attached'
  BY <1>1, EntriesStay, Before
<1>4. inst \in Insts /\ Apart(inst)
  BY <1>1, Before DEF Owns
<1>5. /\ inst.pending \in Seq(Conn) /\ IsInjective(inst.pending)
      /\ inst.conns \in Seq(Conn) /\ IsInjective(inst.conns)
  BY <1>4 DEF Insts, Apart
<1>6. /\ ToSet(inst.pending) \subseteq Conn /\ ToSet(inst.conns) \subseteq Conn
      /\ cur \in Conn \cup {End} /\ next \in Conn \cup {End}
  BY <1>1, Before DEF IInv, TypeOK
<1>7. WalkSound' /\ phase' \in Phases /\ cur' \in Conn \cup {End} /\ next' \in Conn \cup {End}
  <2>1. CASE Begin(inst.pending, "pending")
    <3>1. WalkIn(inst.pending, cur', next', slips') /\ phase' = "pending"
      BY <1>5, <2>1, BeginSound
    <3> QED BY <1>1, <1>6, <3>1 DEF WalkSound, WalkIn, Listed, Phases
  <2>2. CASE Begin(inst.conns, "conns")
    <3>1. WalkIn(inst.conns, cur', next', slips') /\ phase' = "conns"
      BY <1>5, <2>2, BeginSound
    <3> QED BY <1>1, <1>6, <3>1 DEF WalkSound, WalkIn, Listed, Phases
  <2>3. CASE phase' \in {"events", "clean"} /\ UNCHANGED <<cur, next>>
    BY <1>6, <2>3 DEF WalkSound, Phases
  <2> QED BY <2>1, <2>2, <2>3 DEF Walk
<1>8. TypeOK'
  BY <1>1, <1>7 DEF IInv, TypeOK, News
<1> QED BY <1>2, <1>3, <1>7, <1>8 DEF IInv

LEMMA CleanupKeeps ==
    ASSUME IInv, _cleanup_instance
    PROVE  IInv'
<1> DEFINE K == ToSet(inst.conns) \cup ToSet(inst.pending) \cup ToSet(inst.closing)
<1>1. /\ phase = "clean" /\ slips = {} /\ phase' = "done" /\ Free(K, "freed")
      /\ inst' = [inst EXCEPT !.conns = <<>>, !.pending = <<>>, !.closing = <<>>,
                              !.main = Null,
                              !.curr = IF @ \in ToSet(inst.conns) THEN Null ELSE @]
      /\ late' = late /\ stuck' = stuck /\ crtns' = crtns /\ stopped' = stopped
      /\ att' = att /\ cur' = cur /\ next' = next /\ news' = news /\ slips' = slips
  BY DEF _cleanup_instance, env, heap
<1> HIDE DEF K
<1>2. TypeOK
  BY DEF IInv
<1>3. inst \in Insts /\ Owns(inst, Usable) /\ inst.origin \in Conn \cup {Null}
  BY <1>1, Before
<1>4. /\ inst' \in Insts /\ inst'.conns = <<>> /\ inst'.pending = <<>>
      /\ inst'.closing = <<>> /\ inst'.origin = inst.origin
  <2>1. inst.curr \in Entry /\ Null \in Entry
    BY <1>3 DEF Insts, Entry
  <2>2. PICK q \in Entry :
            inst' = [inst EXCEPT !.conns = <<>>, !.pending = <<>>, !.closing = <<>>,
                                 !.main = Null, !.curr = q]
    BY <1>1, <2>1
  <2>3. PICK e : e \in Seq(Conn) /\ e = <<>>
    <3>1. <<>> \in Seq(Conn)
      OBVIOUS
    <3> QED BY <3>1
  <2>4. inst' = [inst EXCEPT !.conns = e, !.pending = e, !.closing = e,
                             !.main = Null, !.curr = q]
    BY <2>2, <2>3
  <2>5. q \in Entry /\ e \in Seq(Conn)
    BY <2>2, <2>3
  <2> HIDE DEF Entry
  <2>6. /\ inst' \in Insts /\ inst'.conns = e /\ inst'.pending = e
        /\ inst'.closing = e /\ inst'.origin = inst.origin
    BY <1>3, <2>1, <2>4, <2>5 DEF Insts
  <2> QED BY <2>3, <2>6
<1>5. /\ mem' \in [Conn -> {"none", "open", "bare", "freed", "cut"}]
      /\ Usable' = Usable \ K
  BY <1>1, <1>2, FreeSound
<1>6. Owns(inst', Usable')
  <2>1. Apart(inst')
    BY <1>4, EmptyMembers DEF Apart
  <2>2. Held(inst') = {inst.origin} \ {Null}
    BY <1>4, EmptyMembers DEF Held
  <2>3. Usable \ K = {inst.origin} \ {Null}
    BY <1>3 DEF Owns, Apart, Held, K
  <2> QED BY <1>5, <2>1, <2>2, <2>3 DEF Owns
<1>7. OwnsAll' /\ PointsSound' /\ OriginIdle'
  BY <1>1, <1>6 DEF OwnsAll, PointsSound, OriginIdle
<1>8. CrtnsSound' /\ Alive' = Alive
  BY <1>1 DEF IInv, CrtnsSound, Alive
<1>9. EntriesSound' /\ Attached'
  BY <1>1, <1>4, EmptyMembers DEF EntriesSound, Attached
<1>10. TypeOK'
  BY <1>1, <1>2, <1>4, <1>5 DEF TypeOK, Insts, Phases
<1>11. WalkSound'
  BY <1>1, NoWalk
<1> QED BY <1>3, <1>4, <1>7, <1>8, <1>9, <1>10, <1>11 DEF IInv

LEMMA TimeKeeps ==
    ASSUME IInv, NEW k \in Conn, TimePasses(k)
    PROVE  IInv'
<1>1. /\ late' = late \cup {k} /\ news' = "none" /\ inst' = inst /\ mem' = mem
      /\ stuck' = stuck /\ crtns' = crtns /\ stopped' = stopped /\ att' = att
      /\ phase' = phase /\ cur' = cur /\ next' = next /\ slips' = slips
  BY DEF TimePasses, heap, pass
<1>2. TypeOK' /\ inst'.origin \in Conn \cup {Null}
  BY <1>1 DEF IInv, TypeOK, News
<1>3. Usable' = Usable /\ Alive' = Alive
  BY <1>1 DEF Usable, Alive
<1>4. OwnsAll' /\ PointsSound' /\ OriginIdle'
  BY <1>1, <1>3 DEF IInv, OwnsAll, PointsSound, OriginIdle
<1>5. WalkSound' /\ CrtnsSound'
  BY <1>1, <1>3 DEF IInv, WalkSound, CrtnsSound, Listed
<1>6. EntriesSound' /\ Attached'
  BY <1>1, <1>3 DEF IInv, EntriesSound, Attached
<1> QED BY <1>2, <1>4, <1>5, <1>6 DEF IInv

LEMMA StutterKeeps ==
    ASSUME IInv, UNCHANGED vars
    PROVE  IInv'
<1>1. /\ late' = late /\ news' = news /\ inst' = inst /\ mem' = mem
      /\ stuck' = stuck /\ crtns' = crtns /\ stopped' = stopped /\ att' = att
      /\ phase' = phase /\ cur' = cur /\ next' = next /\ slips' = slips
  BY DEF vars, env, heap, pass
<1>2. TypeOK' /\ inst'.origin \in Conn \cup {Null}
  BY <1>1 DEF IInv, TypeOK
<1>3. Usable' = Usable /\ Alive' = Alive
  BY <1>1 DEF Usable, Alive
<1>4. OwnsAll' /\ PointsSound' /\ OriginIdle'
  BY <1>1, <1>3 DEF IInv, OwnsAll, PointsSound, OriginIdle
<1>5. WalkSound' /\ CrtnsSound'
  BY <1>1, <1>3 DEF IInv, WalkSound, CrtnsSound, Listed
<1>6. EntriesSound' /\ Attached'
  BY <1>1, <1>3 DEF IInv, EntriesSound, Attached
<1> QED BY <1>2, <1>4, <1>5, <1>6 DEF IInv

-----------------------------------------------------------------------------
(* What one connection of the walk brings. *)

LEMMA ServingBefore ==
    ASSUME IInv, NEW k \in Conn, Serving(k)
    PROVE  /\ slips = {} /\ phase \in {"pending", "conns"} /\ phase # "done"
           /\ cur = k /\ next # k /\ next \in Conn \cup {End}
           /\ k \in ToSet(inst.conns) \cup ToSet(inst.pending)
           /\ phase = "pending" => k \in ToSet(inst.pending)
           /\ phase = "conns" => k \in ToSet(inst.conns)
<1>1. slips = {} /\ phase \in {"pending", "conns"} /\ cur = k
  BY DEF Serving
<1>2. k # End
  BY NullsApart
<1>3. k \in ToSet(Listed(inst)) /\ next # k
  BY <1>1, <1>2 DEF IInv, WalkSound
<1>4. next \in Conn \cup {End}
  BY DEF IInv, TypeOK
<1> QED BY <1>1, <1>3, <1>4 DEF Listed

LEMMA ServedWalk ==
    ASSUME IInv, NEW k \in Conn, Serving(k), NEW oops, Step(oops),
           inst' \in Insts, OwnsAll'
    PROVE  /\ WalkSound' /\ phase' = phase
           /\ cur' \in Conn \cup {End} /\ next' \in Conn \cup {End}
           /\ oops \subseteq slips' /\ slips' \subseteq oops \cup {"next unlinked"}
<1>1. next \in Conn \cup {End}
  BY ServingBefore
<1>2. slips' = {} => IsInjective(inst'.conns) /\ IsInjective(inst'.pending)
  BY DEF OwnsAll, Owns, Apart
<1>3. /\ WalkIn(Listed(inst'), cur', next', slips')
      /\ phase' = phase /\ cur' = next /\ next' \in Conn \cup {End}
      /\ oops \subseteq slips' /\ slips' \subseteq oops \cup {"next unlinked"}
  BY <1>1, <1>2, StepSound
<1>4. Listed(inst)' = Listed(inst')
  BY <1>3 DEF Listed
<1>5. WalkSound'
  BY <1>3, <1>4 DEF WalkSound, WalkIn
<1> QED BY <1>1, <1>3, <1>5

LEMMA QuietKeeps ==
    ASSUME IInv, NEW k \in Conn, Quiet(k)
    PROVE  IInv'
<1>1. /\ Serving(k) /\ Step({}) /\ inst' = inst /\ mem' = mem /\ news' = "none"
      /\ late' = late /\ stuck' = stuck
      /\ crtns' = crtns /\ stopped' = stopped /\ att' = att
  BY DEF Quiet, env, heap
<1>2. slips = {} /\ phase # "done"
  BY <1>1, ServingBefore
<1>3. OwnsAll' /\ PointsSound' /\ OriginIdle' /\ inst'.origin \in Conn \cup {Null}
  BY <1>1, <1>2, ConnsStay DEF IInv
<1>4. inst' \in Insts
  BY <1>1, <1>2, Before
<1>5. /\ WalkSound' /\ phase' = phase
      /\ cur' \in Conn \cup {End} /\ next' \in Conn \cup {End}
      /\ slips' \subseteq {} \cup {"next unlinked"}
  BY <1>1, <1>3, <1>4, ServedWalk
<1>6. CrtnsSound' /\ EntriesSound' /\ Attached'
  BY <1>1, <1>2, EntriesStay, Before
<1>7. TypeOK'
  BY <1>1, <1>5 DEF IInv, TypeOK, News, Slips
<1> QED BY <1>3, <1>5, <1>6, <1>7 DEF IInv

LEMMA EventKeeps ==
    ASSUME IInv, NEW k \in Conn, Event(k)
    PROVE  IInv'
<1>1. /\ Serving(k) /\ Step({}) /\ inst' = [inst EXCEPT !.curr = k] /\ mem' = mem
      /\ news' = "none" /\ late' = late /\ stuck' = stuck
      /\ crtns' = crtns /\ stopped' = stopped /\ att' = att
  BY DEF Event, env, heap
<1>2. slips = {} /\ phase # "done" /\ k \in ToSet(inst.conns) \cup ToSet(inst.pending)
  BY <1>1, ServingBefore
<1>3. /\ inst \in Insts /\ Owns(inst, Usable) /\ Points(inst, Usable)
      /\ inst.origin \in Conn \cup {Null} /\ ToSet(inst.conns) \subseteq Conn
  BY <1>2, Before
<1>4. /\ inst' \in Insts /\ inst'.conns = inst.conns /\ inst'.origin = inst.origin
      /\ Owns(inst', Usable) /\ Points(inst', Usable) /\ Idle(inst')
  BY <1>1, <1>2, <1>3, CurrentKeeps
<1>5. Usable' = Usable
  BY <1>1 DEF Usable
<1>6. OwnsAll' /\ PointsSound' /\ OriginIdle' /\ inst'.origin \in Conn \cup {Null}
  BY <1>3, <1>4, <1>5 DEF OwnsAll, PointsSound, OriginIdle
<1>7. /\ WalkSound' /\ phase' = phase
      /\ cur' \in Conn \cup {End} /\ next' \in Conn \cup {End}
      /\ slips' \subseteq {} \cup {"next unlinked"}
  BY <1>1, <1>4, <1>6, ServedWalk
<1>8. CrtnsSound' /\ EntriesSound' /\ Attached'
  BY <1>1, <1>2, <1>3, <1>4, EntriesStay
<1>9. TypeOK'
  BY <1>1, <1>4, <1>7 DEF IInv, TypeOK, Insts, News, Slips
<1> QED BY <1>6, <1>7, <1>8, <1>9 DEF IInv

LEMMA RejectedKeeps ==
    ASSUME IInv, NEW k \in Conn, Rejected(k)
    PROVE  IInv'
<1>1. /\ Serving(k) /\ phase = "pending" /\ Step({}) /\ inst' = Refuse(inst, k)
      /\ mem' = mem /\ news' = "none" /\ late' = late /\ stuck' = stuck
      /\ crtns' = crtns /\ stopped' = stopped /\ att' = att
  BY DEF Rejected, Answers, env, heap
<1>2. slips = {} /\ phase # "done" /\ k \in ToSet(inst.pending)
  BY <1>1, ServingBefore
<1>3. /\ inst \in Insts /\ Owns(inst, Usable) /\ Points(inst, Usable) /\ Idle(inst)
      /\ inst.origin \in Conn \cup {Null} /\ ToSet(inst.conns) \subseteq Conn
  BY <1>2, Before
<1>4. /\ inst' \in Insts /\ inst'.conns = inst.conns /\ inst'.origin = inst.origin
      /\ Owns(inst', Usable) /\ Points(inst', Usable) /\ Idle(inst')
  BY <1>1, <1>2, <1>3, RefuseKeeps
<1>5. Usable' = Usable
  BY <1>1 DEF Usable
<1>6. OwnsAll' /\ PointsSound' /\ OriginIdle' /\ inst'.origin \in Conn \cup {Null}
  BY <1>3, <1>4, <1>5 DEF OwnsAll, PointsSound, OriginIdle
<1>7. /\ WalkSound' /\ phase' = phase
      /\ cur' \in Conn \cup {End} /\ next' \in Conn \cup {End}
      /\ slips' \subseteq {} \cup {"next unlinked"}
  BY <1>1, <1>4, <1>6, ServedWalk
<1>8. CrtnsSound' /\ EntriesSound' /\ Attached'
  BY <1>1, <1>2, <1>3, <1>4, EntriesStay
<1>9. TypeOK'
  BY <1>1, <1>4, <1>7 DEF IInv, TypeOK, Insts, News, Slips
<1> QED BY <1>6, <1>7, <1>8, <1>9 DEF IInv

LEMMA RefusedKeeps ==
    ASSUME IInv, NEW k \in Conn, Refused(k)
    PROVE  IInv'
<1>1. /\ Serving(k) /\ Step({}) /\ inst' = inst /\ mem' = mem /\ news' = "none"
      /\ late' = late /\ stuck' = stuck \cup {k}
      /\ crtns' = crtns /\ stopped' = stopped /\ att' = att
  BY DEF Refused, Answers, heap
<1>2. slips = {} /\ phase # "done"
  BY <1>1, ServingBefore
<1>3. OwnsAll' /\ PointsSound' /\ OriginIdle' /\ inst'.origin \in Conn \cup {Null}
  BY <1>1, <1>2, ConnsStay DEF IInv
<1>4. inst' \in Insts
  BY <1>1, <1>2, Before
<1>5. /\ WalkSound' /\ phase' = phase
      /\ cur' \in Conn \cup {End} /\ next' \in Conn \cup {End}
      /\ slips' \subseteq {} \cup {"next unlinked"}
  BY <1>1, <1>3, <1>4, ServedWalk
<1>6. CrtnsSound' /\ EntriesSound' /\ Attached'
  BY <1>1, <1>2, EntriesStay, Before
<1>7. TypeOK'
  BY <1>1, <1>5 DEF IInv, TypeOK, News, Slips
<1> QED BY <1>3, <1>5, <1>6, <1>7 DEF IInv

LEMMA AcceptedKeeps ==
    ASSUME IInv, NEW k \in Conn, Accepted(k)
    PROVE  IInv'
<1>1. /\ Serving(k) /\ phase = "pending" /\ inst' = Accept(inst, k)
      /\ mem' = mem /\ news' = "newDuplicate" /\ late' = late /\ stuck' = stuck
      /\ crtns' = crtns /\ stopped' = stopped
  BY DEF Accepted, Answers, env
<1>2. PICK oops \in Attaching : pcintr_attach_renderer(k, Null, oops) /\ Step(oops)
  BY DEF Accepted
<1>3. slips = {} /\ phase # "done" /\ k \in ToSet(inst.pending)
  BY <1>1, ServingBefore
<1>4. /\ inst \in Insts /\ Owns(inst, Usable) /\ Points(inst, Usable) /\ Idle(inst)
      /\ Usable \in SUBSET Conn
      /\ inst.origin \in Conn \cup {Null} /\ ToSet(inst.conns) \subseteq Conn
  BY <1>3, Before
<1>5. /\ inst' \in Insts /\ inst'.origin = inst.origin
      /\ ToSet(inst'.conns) = ToSet(inst.conns) \cup {k}
      /\ Owns(inst', Usable) /\ Points(inst', Usable) /\ Idle(inst')
  BY <1>1, <1>3, <1>4, AcceptKeeps
<1>6. Usable' = Usable
  BY <1>1 DEF Usable
<1>7. OwnsAll' /\ PointsSound' /\ OriginIdle' /\ inst'.origin \in Conn \cup {Null}
  BY <1>4, <1>5, <1>6 DEF OwnsAll, PointsSound, OriginIdle
<1>8. /\ WalkSound' /\ phase' = phase
      /\ cur' \in Conn \cup {End} /\ next' \in Conn \cup {End}
      /\ oops \subseteq slips' /\ slips' \subseteq oops \cup {"next unlinked"}
  BY <1>1, <1>2, <1>5, <1>7, ServedWalk
<1>9. CrtnsSound' /\ EntriesSound' /\ Attached'
  <2>1. ToSet(inst'.conns) = (ToSet(inst.conns) \ {Null}) \cup {k}
    BY <1>4, <1>5, NullsApart
  <2>2. k \in Usable
    BY <1>3, <1>4 DEF Owns, Held
  <2>3. mem[k] # "cut" /\ \A q \in Conn \ {k} : mem'[q] = mem[q]
    BY <1>1, <2>2 DEF Usable
  <2> QED BY <1>1, <1>2, <1>3, <1>8, <2>1, <2>3, EntriesAttach
<1>10. TypeOK'
  <2>1. TypeOK /\ att' \in [Crtn -> SUBSET Conn]
    BY <1>2, AttachSound DEF IInv
  <2>2. slips' \subseteq Slips /\ news' \in News
    BY <1>1, <1>2, <1>8 DEF Attaching, Slips, News
  <2> QED BY <1>1, <1>5, <1>8, <2>1, <2>2 DEF TypeOK, Insts
<1> QED BY <1>7, <1>8, <1>9, <1>10 DEF IInv

LEMMA ConnectAsyncKeeps ==
    ASSUME IInv, NEW k \in Conn, NEW n \in Conn, purc_connect_to_renderer_async(k, n)
    PROVE  IInv'
<1>1. /\ Serving(k) /\ n \in Fresh /\ Open(n, "open") /\ Step({})
      /\ inst' = [inst EXCEPT !.curr = k, !.pending = Append(@, n)]
      /\ news' = "none" /\ late' = late /\ stuck' = stuck
      /\ crtns' = crtns /\ stopped' = stopped /\ att' = att
  BY DEF purc_connect_to_renderer_async, env, heap
<1>2. slips = {} /\ phase # "done" /\ k \in ToSet(inst.conns) \cup ToSet(inst.pending)
  BY <1>1, ServingBefore
<1>3. /\ inst \in Insts /\ Owns(inst, Usable) /\ Points(inst, Usable)
      /\ Usable \in SUBSET Conn
      /\ inst.origin \in Conn \cup {Null} /\ ToSet(inst.conns) \subseteq Conn
  BY <1>2, Before
<1>4. /\ mem' \in [Conn -> {"none", "open", "bare", "freed", "cut"}]
      /\ n \notin Usable /\ Usable' = Usable \cup {n}
      /\ \A q \in Conn \ {n} : mem'[q] = mem[q]
      /\ mem[n] = "none"
  BY <1>1, OpenSound DEF IInv
<1>5. PICK h : h = [inst EXCEPT !.curr = k]
  OBVIOUS
<1>6. /\ h \in Insts /\ h.conns = inst.conns /\ h.pending = inst.pending
      /\ h.origin = inst.origin
      /\ Owns(h, Usable) /\ Points(h, Usable) /\ Idle(h)
  BY <1>2, <1>3, <1>5, CurrentKeeps
<1>7. AddsPending(inst', h, n)
  <2>1. h.pending = inst.pending
    BY <1>6
  <2> QED BY <1>1, <1>5, <2>1 DEF AddsPending
<1>8. /\ inst' \in Insts /\ inst'.conns = h.conns /\ inst'.origin = h.origin
      /\ Owns(inst', Usable \cup {n}) /\ Points(inst', Usable \cup {n}) /\ Idle(inst')
  <2>1. n \in Conn \ Usable
    BY <1>4
  <2> QED BY <1>3, <1>6, <1>7, <2>1, PendingKeeps
<1>9. OwnsAll' /\ PointsSound' /\ OriginIdle' /\ inst'.origin \in Conn \cup {Null}
  BY <1>3, <1>4, <1>6, <1>8 DEF OwnsAll, PointsSound, OriginIdle
<1>10. /\ WalkSound' /\ phase' = phase
       /\ cur' \in Conn \cup {End} /\ next' \in Conn \cup {End}
       /\ slips' \subseteq {} \cup {"next unlinked"}
  BY <1>1, <1>8, <1>9, ServedWalk
<1>11. CrtnsSound' /\ EntriesSound' /\ Attached'
  <2>1. n \notin ToSet(inst.conns)
    BY <1>2, <1>4, Before
  <2> QED BY <1>1, <1>2, <1>3, <1>4, <1>6, <1>8, <2>1, EntriesStay
<1>12. TypeOK'
  BY <1>1, <1>4, <1>8, <1>10 DEF IInv, TypeOK, Insts, News, Slips
<1> QED BY <1>9, <1>10, <1>11, <1>12 DEF IInv

LEMMA LostKeeps ==
    ASSUME IInv, NEW k \in Conn, handle_rdr_conn_lost(k)
    PROVE  IInv'
<1>1. /\ Serving(k) /\ DropConn(k) /\ Step(MainLost(inst'))
      /\ news' = EventOfLoss(k) /\ crtns' = crtns /\ stopped' = stopped
  BY DEF handle_rdr_conn_lost
<1>2. slips = {} /\ phase # "done" /\ k \in ToSet(inst.conns) \cup ToSet(inst.pending)
  BY <1>1, ServingBefore
<1>3. PICK U : U = Usable \ {k}
  OBVIOUS
<1>4. MainLost(inst') \subseteq slips'
  BY <1>1 DEF Step
<1>5. /\ inst' \in Insts /\ inst'.origin \in Conn \cup {Null}
      /\ mem' \in [Conn -> {"none", "open", "bare", "freed", "cut"}]
      /\ late' = late /\ stuck' = stuck \ {k}
      /\ att' \in [Crtn -> SUBSET Conn]
      /\ MainLost(inst') \in {{}, {"no renderer left"}, {"pending main"}}
  BY <1>1, <1>2, <1>3, <1>4, DropSound
<1>6. /\ OwnsAll' /\ PointsSound' /\ OriginIdle'
      /\ CrtnsSound' /\ EntriesSound' /\ Attached'
  BY <1>1, <1>2, <1>3, <1>4, DropSound
<1>7. /\ WalkSound' /\ phase' = phase
      /\ cur' \in Conn \cup {End} /\ next' \in Conn \cup {End}
      /\ slips' \subseteq MainLost(inst') \cup {"next unlinked"}
  BY <1>1, <1>5, <1>6, ServedWalk
<1>8. TypeOK'
  <2>1. slips' \subseteq Slips /\ news' \in News
    BY <1>1, <1>5, <1>7 DEF Slips, News, EventOfLoss
  <2>2. TypeOK
    BY DEF IInv
  <2> QED BY <1>1, <1>5, <1>7, <2>1, <2>2 DEF TypeOK, Insts
<1> QED BY <1>5, <1>6, <1>7, <1>8 DEF IInv

LEMMA SwitchKeeps ==
    ASSUME IInv, NEW k \in Conn, NEW n \in Conn, pcrdr_switch_renderer(k, n)
    PROVE  IInv'
<1>1. /\ Serving(k) /\ n \in Fresh /\ late' = late /\ stuck' = stuck
      /\ crtns' = crtns /\ stopped' = stopped
  BY DEF pcrdr_switch_renderer, env
<1>2. slips = {} /\ phase # "done" /\ k \in ToSet(inst.conns) \cup ToSet(inst.pending)
  BY <1>1, ServingBefore
<1>3. /\ inst \in Insts /\ Owns(inst, Usable) /\ Points(inst, Usable)
      /\ Usable \in SUBSET Conn
      /\ inst.origin \in Conn \cup {Null} /\ ToSet(inst.conns) \subseteq Conn
  BY <1>2, Before
<1>4. PICK h : h = [inst EXCEPT !.curr = k]
  OBVIOUS
<1>5. /\ h \in Insts /\ h.conns = inst.conns /\ h.pending = inst.pending
      /\ h.main = inst.main /\ h.origin = inst.origin
      /\ Owns(h, Usable) /\ Points(h, Usable) /\ Idle(h)
  BY <1>2, <1>3, <1>4, CurrentKeeps
<1>6. inst' = IF inst.main = Null THEN h ELSE Install(h, n)
  BY <1>4 DEF pcrdr_switch_renderer
<1>7. TypeOK
  BY DEF IInv
<1>8. n \notin Usable /\ mem[n] = "none" /\ n \notin ToSet(inst.conns)
  <2>1. n \notin Usable /\ mem[n] = "none"
    BY <1>1 DEF Fresh, Usable
  <2> QED BY <1>2, <2>1, Before
<1>9. ASSUME inst.main # Null
      PROVE  /\ inst' \in Insts /\ inst.main \in Conn /\ inst'.origin = inst.main
             /\ ToSet(inst'.conns) = (ToSet(inst.conns) \ {inst.main}) \cup {n}
             /\ inst.origin = Null => Owns(inst', Usable \cup {n})
             /\ Points(inst', Usable \cup {n}) /\ Idle(inst')
  <2>1. Installs(inst', h, n, Usable)
    BY <1>5, <1>6, <1>8, <1>9 DEF Installs
  <2>2. h.main = inst.main /\ h.conns = inst.conns /\ h.origin = inst.origin
    BY <1>5
  <2>3. h \in Insts /\ Owns(h, Usable) /\ Points(h, Usable) /\ Usable \in SUBSET Conn
    BY <1>3, <1>5
  <2>4. inst' \in Insts /\ Installed(inst', h, n)
    BY <2>1, <2>3, InstallKeeps
  <2>5. /\ h.main \in Conn /\ inst'.origin = h.main
        /\ ToSet(inst'.conns) = (ToSet(h.conns) \ {h.main}) \cup {n}
    BY <2>4 DEF Installed
  <2>6. h.origin = Null => Owns(inst', Usable \cup {n})
    BY <2>1, <2>3, InstallKeeps
  <2>7. Points(inst', Usable \cup {n}) /\ Idle(inst')
    BY <2>1, <2>3, InstallKeeps
  <2> QED BY <2>2, <2>4, <2>5, <2>6, <2>7
<1>10. CASE inst.main # Null /\ Open(n, "open") /\ news' = "newRenderer"
            /\ \E oops \in Attaching :
                  /\ pcintr_attach_renderer(n, inst.main, oops)
                  /\ Step(oops \cup IF inst.origin = Null THEN {}
                                    ELSE {"origin overwritten"})
  <2>1. PICK oops \in Attaching :
                  /\ pcintr_attach_renderer(n, inst.main, oops)
                  /\ Step(oops \cup IF inst.origin = Null THEN {}
                                    ELSE {"origin overwritten"})
    BY <1>10
  <2>2. PICK more : /\ more = oops \cup IF inst.origin = Null THEN {}
                                        ELSE {"origin overwritten"}
                    /\ Step(more)
    BY <2>1
  <2>3. /\ mem' \in [Conn -> {"none", "open", "bare", "freed", "cut"}]
        /\ Usable' = Usable \cup {n}
        /\ \A q \in Conn \ {n} : mem'[q] = mem[q]
    BY <1>1, <1>7, <1>10, OpenSound
  <2>4. more \subseteq slips'
    BY <2>2 DEF Step
  <2>5. OwnsAll' /\ PointsSound' /\ OriginIdle' /\ inst'.origin \in Conn \cup {Null}
    <3>1. slips' \cap OwnedSlips = {} => inst.origin = Null
      BY <2>2, <2>4 DEF OwnedSlips
    <3> QED BY <1>9, <1>10, <2>3, <3>1 DEF OwnsAll, PointsSound, OriginIdle
  <2>6. inst' \in Insts
    BY <1>9, <1>10
  <2>7. /\ WalkSound' /\ phase' = phase
        /\ cur' \in Conn \cup {End} /\ next' \in Conn \cup {End}
        /\ slips' \subseteq more \cup {"next unlinked"}
    BY <1>1, <2>2, <2>5, <2>6, ServedWalk
  <2>8. CrtnsSound' /\ EntriesSound' /\ Attached'
    <3>1. oops \subseteq slips'
      BY <2>2, <2>4
    <3>2. ToSet(inst'.conns) = (ToSet(inst.conns) \ {inst.main}) \cup {n}
      BY <1>9, <1>10
    <3>3. mem[n] # "cut"
      BY <1>8
    <3>4. pcintr_attach_renderer(n, inst.main, oops)
      BY <2>1
    <3> QED BY <1>1, <1>2, <2>3, <3>1, <3>2, <3>3, <3>4, EntriesAttach
  <2>9. TypeOK'
    <3>1. att' \in [Crtn -> SUBSET Conn]
      BY <1>7, <2>1, AttachSound
    <3>2. slips' \subseteq Slips /\ news' \in News
      BY <1>10, <2>2, <2>7 DEF Attaching, Slips, News
    <3> QED BY <1>1, <1>7, <2>3, <2>6, <2>7, <3>1, <3>2 DEF TypeOK, Insts
  <2> QED BY <2>5, <2>7, <2>8, <2>9 DEF IInv
<1>11. CASE inst.main # Null /\ Open(n, "freed") /\ att' = att /\ Step({"late refusal"})
            /\ news' = "none"
  <2>1. mem' \in [Conn -> {"none", "open", "bare", "freed", "cut"}]
    BY <1>7, <1>11 DEF Open, TypeOK
  <2>2. "late refusal" \in slips'
    BY <1>11 DEF Step
  <2>3. OwnsAll' /\ PointsSound' /\ OriginIdle' /\ inst'.origin \in Conn \cup {Null}
    BY <1>9, <1>11, <2>2
      DEF OwnsAll, PointsSound, OriginIdle, OwnedSlips, PointerSlips
  <2>4. inst' \in Insts
    BY <1>9, <1>11
  <2>5. /\ WalkSound' /\ phase' = phase
        /\ cur' \in Conn \cup {End} /\ next' \in Conn \cup {End}
        /\ slips' \subseteq {"late refusal"} \cup {"next unlinked"}
    BY <1>1, <1>11, <2>3, <2>4, ServedWalk
  <2>6. CrtnsSound' /\ EntriesSound' /\ Attached'
    BY <2>2 DEF CrtnsSound, EntriesSound, Attached
  <2>7. TypeOK'
    BY <1>1, <1>7, <1>11, <2>1, <2>4, <2>5 DEF TypeOK, Insts, News, Slips
  <2> QED BY <2>3, <2>5, <2>6, <2>7 DEF IInv
<1>12. CASE inst.main = Null /\ mem' = mem /\ att' = att /\ Step({"no main"})
            /\ news' = "none"
  <2>1. inst' = h
    BY <1>6, <1>12
  <2>2. Usable' = Usable
    BY <1>12 DEF Usable
  <2>3. OwnsAll' /\ PointsSound' /\ OriginIdle' /\ inst'.origin \in Conn \cup {Null}
    BY <1>3, <1>5, <2>1, <2>2 DEF OwnsAll, PointsSound, OriginIdle
  <2>4. inst' \in Insts /\ inst'.conns = inst.conns
    BY <1>5, <2>1
  <2>5. /\ WalkSound' /\ phase' = phase
        /\ cur' \in Conn \cup {End} /\ next' \in Conn \cup {End}
        /\ slips' \subseteq {"no main"} \cup {"next unlinked"}
    BY <1>1, <1>12, <2>3, <2>4, ServedWalk
  <2>6. CrtnsSound' /\ EntriesSound' /\ Attached'
    BY <1>1, <1>2, <1>12, <2>4, EntriesStay
  <2>7. TypeOK'
    BY <1>1, <1>7, <1>12, <2>4, <2>5 DEF TypeOK, Insts, News, Slips
  <2> QED BY <2>3, <2>5, <2>6, <2>7 DEF IInv
<1> QED BY <1>10, <1>11, <1>12 DEF pcrdr_switch_renderer

-----------------------------------------------------------------------------
(* The theorems. *)

LEMMA InitSound ==
    ASSUME Init
    PROVE  IInv
<1>1. PICK k : k = Min(Conn)
  OBVIOUS
<1>2. k \in Conn
  <2>1. \E x \in Conn : \A y \in Conn : x <= y
    BY ConnsAssumption, SmallestIndex
  <2> QED BY <1>1, <2>1 DEF Min
<1>3. PICK s : s = <<k>>
  OBVIOUS
<1>4. /\ inst = [conns |-> s, pending |-> <<>>, closing |-> <<>>,
                 main |-> k, curr |-> k, origin |-> Null]
      /\ mem = [[q \in Conn |-> "none"] EXCEPT ![k] = "open"]
      /\ late = {} /\ stuck = {}
      /\ crtns = <<>> /\ stopped = <<>> /\ att = [c \in Crtn |-> {}]
      /\ phase = "clean" /\ cur = End /\ next = End
      /\ news = "none" /\ slips = {}
  BY <1>1, <1>3 DEF Init
<1>5. s \in Seq(Conn) /\ ToSet(s) = {k} /\ IsInjective(s)
  BY <1>2, <1>3 DEF ToSet, IsInjective
<1>6. <<>> \in Seq(Conn) /\ <<>> \in Seq(Crtn)
  OBVIOUS
<1>7. /\ inst.conns = s /\ inst.pending = <<>> /\ inst.closing = <<>>
      /\ inst.main = k /\ inst.curr = k /\ inst.origin = Null
  BY <1>4
<1>8. inst \in Insts
  <2>1. k \in Entry /\ Null \in Entry
    BY <1>2 DEF Entry
  <2> QED BY <1>4, <1>5, <1>6, <2>1 DEF Insts
<1>9. /\ mem \in [Conn -> {"none", "open", "bare", "freed", "cut"}]
      /\ \A q \in Conn : mem[q] = IF q = k THEN "open" ELSE "none"
  BY <1>2, <1>4
<1>10. Usable = {k}
  BY <1>2, <1>9 DEF Usable
<1>11. TypeOK
  BY <1>4, <1>6, <1>8, <1>9 DEF TypeOK, Insts, Phases, News, Slips
<1>12. Owns(inst, Usable)
  BY <1>2, <1>5, <1>7, <1>10, EmptyMembers, NullsApart DEF Owns, Apart, Held
<1>13. Points(inst, Usable) /\ Idle(inst)
  BY <1>2, <1>5, <1>7, <1>10 DEF Points, Idle
<1>14. Alive = {}
  BY <1>4, EmptyMembers DEF Alive
<1>15. CrtnsSound /\ EntriesSound /\ Attached
  BY <1>4, <1>14, EmptyMembers DEF CrtnsSound, EntriesSound, Attached
<1> QED BY <1>4, <1>7, <1>11, <1>12, <1>13, <1>15
  DEF IInv, OwnsAll, PointsSound, OriginIdle, WalkSound

LEMMA NextSound ==
    ASSUME IInv, [Next]_vars
    PROVE  IInv'
<1>1. CASE Programs
  BY <1>1, StopKeeps, ResumeKeeps, DestroyKeeps, ScheduleKeeps, ConnectKeeps,
     ConnectGetterKeeps, DisconnectKeeps, DisconnectGetterKeeps DEF Programs
<1>2. CASE Serve
  BY <1>2, QuietKeeps, EventKeeps, RejectedKeeps, RefusedKeeps, AcceptedKeeps,
     LostKeeps, ConnectAsyncKeeps, SwitchKeeps DEF Serve
<1>3. CASE Clean
  BY <1>3, CleanSound
<1>4. CASE Walk
  BY <1>4, WalkKeeps
<1>5. CASE _cleanup_instance
  BY <1>5, CleanupKeeps
<1>6. CASE \E k \in Conn : TimePasses(k)
  BY <1>6, TimeKeeps
<1>7. CASE UNCHANGED vars
  BY <1>7, StutterKeeps
<1> QED BY <1>1, <1>2, <1>3, <1>4, <1>5, <1>6, <1>7 DEF Next

\* Every variable keeps its type.
THEOREM ConnsTyped == Spec => []TypeOK
<1>1. Init => IInv
  BY InitSound
<1>2. IInv /\ [Next]_vars => IInv'
  BY NextSound
<1>3. IInv => TypeOK
  BY DEF IInv
<1> QED BY <1>1, <1>2, <1>3, PTL DEF Spec

\* No connection leaks, is freed twice or belongs to two lists, whatever order
\* connections, switches, answers and losses come in.
THEOREM OneOwner == Spec => []Owned
<1>1. Init => IInv
  BY InitSound
<1>2. IInv /\ [Next]_vars => IInv'
  BY NextSound
<1>3. ASSUME IInv PROVE Owned
  <2>1. inst \in Insts /\ inst.origin \in Conn \cup {Null}
    BY <1>3 DEF IInv, TypeOK, Insts
  <2>2. Owns(inst, Usable) => IsInjective(AllOf(inst)) /\ ToSet(AllOf(inst)) = Usable
    BY <2>1, OwnsMeansOwned
  <2>3. slips \cap OwnedSlips = {} => Owns(inst, Usable)
    BY <1>3 DEF IInv, OwnsAll
  <2>4. Owned <=> (slips \cap OwnedSlips = {}
                     => IsInjective(AllOf(inst)) /\ ToSet(AllOf(inst)) = Usable)
    BY DEF Owned, OwnedSlips, AllOf
  <2> QED BY <2>2, <2>3, <2>4
<1> QED BY <1>1, <1>2, <1>3, PTL DEF Spec

\* The pointers of the instance never dangle, and main is in the list that the
\* scheduler walks through.
THEOREM PointersStaySound == Spec => []PointersSound
<1>1. Init => IInv
  BY InitSound
<1>2. IInv /\ [Next]_vars => IInv'
  BY NextSound
<1>3. IInv => PointersSound
  BY DEF IInv, PointsSound, PointersSound, Points, PointerSlips
<1> QED BY <1>1, <1>2, <1>3, PTL DEF Spec

\* No coroutine keeps an entry for a connection that was freed.
THEOREM EntriesStaySound == Spec => []EntriesSound
<1>1. Init => IInv
  BY InitSound
<1>2. IInv /\ [Next]_vars => IInv'
  BY NextSound
<1>3. IInv => EntriesSound
  BY DEF IInv
<1> QED BY <1>1, <1>2, <1>3, PTL DEF Spec

\* Every coroutine is attached to every renderer, whoever came first.
THEOREM EveryoneAttached == Spec => []Attached
<1>1. Init => IInv
  BY InitSound
<1>2. IInv /\ [Next]_vars => IInv'
  BY NextSound
<1>3. IInv => Attached
  BY DEF IInv
<1> QED BY <1>1, <1>2, <1>3, PTL DEF Spec

-----------------------------------------------------------------------------
(* The action properties. *)

NextStaysStep ==
    \A k \in Conn :
        phase \in {"pending", "conns"} /\ next = k /\ k \notin ToSet(Listed(inst'))
            => k = inst.main /\ k = inst'.origin

\* Neither list changes.
LEMMA ListsStay ==
    ASSUME IInv, inst'.conns = inst.conns, inst'.pending = inst.pending
    PROVE  NextStaysStep
<1>1. Listed(inst') = Listed(inst)
  BY DEF Listed
<1>2. phase \in {"pending", "conns"} => next \in ToSet(Listed(inst)) \cup {End}
  BY DEF IInv, WalkSound
<1> QED BY <1>1, <1>2, NullsApart DEF NextStaysStep

\* The walk is at k, and the lists lose at most k, or main, which is the origin.
LEMMA OthersStay ==
    ASSUME IInv, NEW k \in Conn, Serving(k),
           ToSet(inst.pending) \ {k} \subseteq ToSet(inst'.pending),
           \/ ToSet(inst.conns) \ {k} \subseteq ToSet(inst'.conns)
           \/ /\ ToSet(inst.conns) \ {inst.main} \subseteq ToSet(inst'.conns)
              /\ inst'.origin = inst.main
    PROVE  NextStaysStep
<1>1. /\ phase \in {"pending", "conns"} /\ next # k /\ slips = {}
      /\ next \in ToSet(Listed(inst)) \cup {End}
  BY ServingBefore DEF IInv, WalkSound
<1> SUFFICES ASSUME NEW q \in Conn, next = q, q \notin ToSet(Listed(inst'))
             PROVE  q = inst.main /\ q = inst'.origin
  BY DEF NextStaysStep
<1>2. q \in ToSet(Listed(inst)) /\ q # k
  BY <1>1, NullsApart
<1>3. CASE phase = "pending"
  BY <1>2, <1>3 DEF Listed
<1>4. CASE phase = "conns"
  BY <1>2, <1>4 DEF Listed
<1> QED BY <1>1, <1>3, <1>4

LEMMA NextStaysInServe ==
    ASSUME IInv, NEW k \in Conn, NEW n \in Conn, Serving(k),
           \/ Quiet(k) \/ Event(k) \/ Rejected(k) \/ Refused(k) \/ Accepted(k)
           \/ handle_rdr_conn_lost(k)
           \/ purc_connect_to_renderer_async(k, n) \/ pcrdr_switch_renderer(k, n)
    PROVE  NextStaysStep
<1>1. slips = {} /\ phase # "done"
  BY ServingBefore
<1>2. /\ inst \in Insts /\ Owns(inst, Usable) /\ Points(inst, Usable) /\ Idle(inst)
      /\ Usable \in SUBSET Conn
  BY <1>1, Before
<1>3. CASE Quiet(k) \/ Refused(k)
  BY <1>3, ListsStay DEF Quiet, Refused
<1>4. CASE Event(k)
  <2>1. inst'.conns = inst.conns /\ inst'.pending = inst.pending
    BY <1>2, <1>4 DEF Event, Insts
  <2> QED BY <2>1, ListsStay
<1>5. CASE Rejected(k)
  <2>1. inst' = Refuse(inst, k) /\ k \in ToSet(inst.pending)
    BY <1>5, ServingBefore DEF Rejected, Answers
  <2>2. inst'.conns = inst.conns
    BY <1>2, <2>1, RefuseKeeps
  <2>3. ToSet(inst'.pending) = ToSet(inst.pending) \ {k}
    BY <1>2, <2>1, RefuseKeeps
  <2> QED BY <2>2, <2>3, OthersStay
<1>6. CASE Accepted(k)
  <2>1. inst' = Accept(inst, k) /\ k \in ToSet(inst.pending)
    BY <1>6, ServingBefore DEF Accepted, Answers
  <2>2. ToSet(inst'.conns) = ToSet(inst.conns) \cup {k}
    BY <1>2, <2>1, AcceptKeeps
  <2>3. ToSet(inst'.pending) = ToSet(inst.pending) \ {k}
    BY <1>2, <2>1, AcceptKeeps
  <2> QED BY <2>2, <2>3, OthersStay
<1>7. CASE handle_rdr_conn_lost(k)
  <2>1. Forgets(inst', inst, k)
    BY <1>7 DEF handle_rdr_conn_lost, DropConn, Forgets
  <2>2. ToSet(inst'.conns) = ToSet(inst.conns) \ {k}
    BY <1>2, <2>1, ForgetLists
  <2>3. ToSet(inst'.pending) = ToSet(inst.pending) \ {k}
    BY <1>2, <2>1, ForgetLists
  <2> QED BY <2>2, <2>3, OthersStay
<1>8. CASE purc_connect_to_renderer_async(k, n)
  <2>1. PICK w : Appended(inst.pending, n, w)
    BY DEF Appended
  <2>2. inst' = [inst EXCEPT !.curr = k, !.pending = w]
    BY <1>8, <2>1 DEF purc_connect_to_renderer_async, Appended
  <2>3. inst'.conns = inst.conns /\ inst'.pending = w
    BY <1>2, <2>2 DEF Insts
  <2>4. ToSet(w) = ToSet(inst.pending) \cup {n}
    <3>1. inst.pending \in Seq(Conn)
      BY <1>2 DEF Insts
    <3> QED BY <2>1, <3>1, AppendedMembers
  <2> QED BY <2>3, <2>4, OthersStay
<1>9. CASE pcrdr_switch_renderer(k, n)
  <2>1. PICK h : h = [inst EXCEPT !.curr = k]
    OBVIOUS
  <2>2. inst' = IF inst.main = Null THEN h ELSE Install(h, n)
    BY <1>9, <2>1 DEF pcrdr_switch_renderer
  <2>3. k \in ToSet(inst.conns) \cup ToSet(inst.pending)
    BY ServingBefore
  <2>4. /\ h.conns = inst.conns /\ h.pending = inst.pending /\ h.main = inst.main
    BY <1>2, <2>1, <2>3, CurrentKeeps
  <2>5. CASE inst.main = Null
    BY <2>2, <2>4, <2>5, ListsStay
  <2>6. CASE inst.main # Null
    <3>1. h \in Insts /\ Owns(h, Usable) /\ Points(h, Usable)
      BY <1>2, <2>1, <2>3, CurrentKeeps
    <3>2. n \in Conn \ Usable
      BY <1>9 DEF pcrdr_switch_renderer, Fresh, Usable
    <3>3. Installs(inst', h, n, Usable)
      BY <2>2, <2>4, <2>6, <3>2 DEF Installs
    <3>4. Installed(inst', h, n)
      BY <1>2, <3>1, <3>3, InstallKeeps
    <3>5. /\ inst'.origin = inst.main
          /\ ToSet(inst.conns) \ {inst.main} \subseteq ToSet(inst'.conns)
      BY <2>4, <3>4 DEF Installed
    <3>6. ToSet(inst.pending) \ {k} \subseteq ToSet(inst'.pending)
      BY <2>4, <3>4 DEF Installed
    <3> QED BY <3>5, <3>6, OthersStay
  <2> QED BY <2>5, <2>6
<1> QED BY <1>3, <1>4, <1>5, <1>6, <1>7, <1>8, <1>9

LEMMA NextStaysInNext ==
    ASSUME IInv, [Next]_vars
    PROVE  NextStaysStep
<1>1. CASE phase \notin {"pending", "conns"}
  BY <1>1 DEF NextStaysStep
<1>2. CASE inst' = inst
  BY <1>2, ListsStay
<1>3. CASE Serve
  <2>1. ASSUME NEW k \in Conn,
               \/ Quiet(k) \/ Event(k) \/ Rejected(k) \/ Refused(k) \/ Accepted(k)
               \/ handle_rdr_conn_lost(k)
        PROVE  NextStaysStep
    <3>1. Serving(k)
      BY <2>1 DEF Quiet, Event, Rejected, Refused, Accepted, Answers,
                  handle_rdr_conn_lost
    <3> QED BY <2>1, <3>1, NextStaysInServe
  <2>2. ASSUME NEW k \in Conn, NEW n \in Conn,
               \/ purc_connect_to_renderer_async(k, n)
               \/ pcrdr_switch_renderer(k, n)
        PROVE  NextStaysStep
    <3>1. Serving(k)
      BY <2>2 DEF purc_connect_to_renderer_async, pcrdr_switch_renderer
    <3> QED BY <2>2, <3>1, NextStaysInServe
  <2> QED BY <1>3, <2>1, <2>2 DEF Serve
<1>4. CASE Programs \/ Clean \/ _cleanup_instance
  <2>1. phase \notin {"pending", "conns"}
    BY <1>4 DEF Programs, Clean, _cleanup_instance, Stop, Resume, coroutine_destroy,
         purc_schedule_vdom, purc_connect_to_renderer, connect_getter,
         purc_disconnect_from_renderer, disconnect_getter, InSteps, Handling
  <2> QED BY <1>1, <2>1
<1>5. CASE Walk \/ (\E k \in Conn : TimePasses(k)) \/ UNCHANGED vars
  <2>1. inst' = inst
    BY <1>5 DEF Walk, TimePasses, vars
  <2> QED BY <1>2, <2>1
<1> QED BY <1>3, <1>4, <1>5 DEF Next

\* The connection at which a walk will go on stays in the list, unless the
\* renderer at hand asks for a switch of the main connection.
THEOREM NextAlwaysStays == Spec => NextStays
<1>1. Init => IInv
  BY InitSound
<1>2. IInv /\ [Next]_vars => IInv'
  BY NextSound
<1>3. IInv /\ [Next]_vars => NextStaysStep
  BY NextStaysInNext
<1>4. NextStaysStep =>
        \A k \in Conn :
          phase \in {"pending", "conns"} /\ next = k /\ k \notin ToSet(Listed(inst'))
             => k = inst.main /\ k = inst'.origin
  BY DEF NextStaysStep
<1> QED BY <1>1, <1>2, <1>3, <1>4, PTL DEF Spec, NextStays

=============================================================================
