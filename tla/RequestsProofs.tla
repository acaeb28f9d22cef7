--------------------------- MODULE RequestsProofs ---------------------------
(***************************************************************************)
(* Proofs about the requests of a connection (Requests.tla), for any       *)
(* number of requests, depth of nested calls and size of the sources.      *)
(*                                                                         *)
(* ContextsLive and InnermostFirst are parts of the inductive invariant    *)
(* IInv.  DropExplained holds because pending requests lie in the order in *)
(* which the renderer answers them (AnswersInOrder), and the promise       *)
(* RequestOutcome because a pending asynchronous request was told its      *)
(* result if it is being handled, and nothing otherwise (OutcomesTold).    *)
(* All of it holds however long handlers wait.                             *)
(***************************************************************************)
EXTENDS Requests, ListLemmas

-----------------------------------------------------------------------------
(* The inductive invariant. *)

Serves(i) == stack[i].op \in {"wait", "response"}

\* A call that serves a request is the only one that does; it waits for a
\* synchronous request whose sender was told nothing, or it handles the
\* response to an asynchronous one.
FramesSound ==
    /\ \A i \in 1 .. Len(stack) : Serves(i) => stack[i].req \in Req
    /\ \A i \in 1 .. Len(stack) : stack[i].op = "wait" =>
          mode[stack[i].req] = "sync" /\ outcome[stack[i].req] = "none"
    /\ \A i \in 1 .. Len(stack) : stack[i].op = "response" =>
          mode[stack[i].req] = "async"
    /\ \A i, j \in 1 .. Len(stack) :
          Serves(i) /\ Serves(j) /\ stack[i].req = stack[j].req => i = j

\* Nothing happened to a request that was not sent.
UnsentBlank ==
    \A r \in Req : mode[r] = "no" =>
       slot[r] = "null" /\ outcome[r] = "none" /\ r \notin ToSet(pending)

\* A source s, which was asked a and sent b, answers what it was asked, each
\* request once, and no answer of it is being handled.
Answers(s, a, b, m, v, H) ==
    /\ IsInjective(a)
    /\ \A i, j \in 1 .. Len(b) : b[i] = b[j] /\ b[i] # Other => i = j
    /\ \A r \in ToSet(a) : r \notin ToSet(b)
    /\ \A r \in ToSet(a) \cup (ToSet(b) \ {Other}) :
          m[r] # "no" /\ v[r] = s /\ r \notin H

AnsweredOnce == \A s \in Src : Answers(s, asked[s], inbox[s], mode, via, Handling)

\* A pending asynchronous request was told its result if its handler runs, and
\* nothing otherwise.
OutcomesTold ==
    /\ \A r \in ToSet(pending) \cap Handling : outcome[r] = "result"
    /\ \A r \in ToSet(pending) \ Handling : mode[r] = "async" => outcome[r] = "none"

\* The calls, the list and the answers agree.
IInv == /\ TypeOK /\ FramesSound /\ UnsentBlank /\ AnsweredOnce
        /\ ContextsLive /\ InnermostFirst

-----------------------------------------------------------------------------
(* The calls in progress: what the steps do to the stack. *)

\* The first n calls are the same, but for the points they have reached.
Alike(u, v, n) == \A i \in 1 .. n : v[i].op = u[i].op /\ v[i].req = u[i].req

SameCalls(u, v) == Len(v) = Len(u) /\ Alike(u, v, Len(v))
Returned(u, v)  == Len(v) = Len(u) - 1 /\ Alike(u, v, Len(v))
Called(u, v, op, r) == /\ Len(v) = Len(u) + 1 /\ Alike(u, v, Len(u))
                       /\ v[Len(v)].op = op /\ v[Len(v)].req = r

Points == {"source", "read", "again", "check"}

LEMMA FrameTyped ==
    ASSUME NEW op \in {"wait", "poll", "handler", "response"},
           NEW r \in Req \cup {Other}
    PROVE  /\ Frame(op, r) \in Frames
           /\ Frame(op, r).op = op /\ Frame(op, r).req = r
BY DEF Frame, Frames

LEMMA AtCalls ==
    ASSUME stack \in Seq(Frames), stack # <<>>, NEW p \in Points
    PROVE  At(p) \in Seq(Frames) /\ SameCalls(stack, At(p))
<1>1. PICK u \in Seq(Frames) : u = stack
  OBVIOUS
<1>2. Len(u) \in 1 .. Len(u) /\ Len(u) \in Nat
  BY <1>1, EmptySeq
<1>3. PICK f \in Frames : f = [u[Len(u)] EXCEPT !.pc = p]
  <2>1. u[Len(u)] \in Frames
    BY <1>2
  <2>2. [u[Len(u)] EXCEPT !.pc = p] \in Frames
    BY <2>1 DEF Frames, Points
  <2> QED BY <2>2
<1>4. f.op = u[Len(u)].op /\ f.req = u[Len(u)].req
  <2>1. u[Len(u)] \in Frames
    BY <1>2
  <2> QED BY <1>3, <2>1 DEF Frames
<1>5. PICK v : v = [u EXCEPT ![Len(u)] = f]
  OBVIOUS
<1>6. /\ v \in Seq(Frames) /\ Len(v) = Len(u)
      /\ \A i \in 1 .. Len(u) : v[i] = IF i = Len(u) THEN f ELSE u[i]
  BY <1>2, <1>5, ExceptSeq
<1>7. At(p) = v
  BY <1>1, <1>3, <1>5 DEF At
<1>8. \A i \in 1 .. Len(v) : v[i].op = u[i].op /\ v[i].req = u[i].req
  BY <1>4, <1>6
<1> QED BY <1>1, <1>6, <1>7, <1>8 DEF SameCalls, Alike

LEMMA PopCalls ==
    ASSUME stack \in Seq(Frames), stack # <<>>
    PROVE  /\ Pop \in Seq(Frames) /\ Returned(stack, Pop)
           /\ Top = stack[Len(stack)] /\ Top \in Frames
           /\ Len(stack) \in Nat /\ Len(stack) \in 1 .. Len(stack)
<1>1. PICK u \in Seq(Frames) : u = stack
  OBVIOUS
<1>2. Len(u) \in 1 .. Len(u) /\ Len(u) \in Nat
  BY <1>1, EmptySeq
<1>3. u[Len(u)] \in Frames
  BY <1>2
<1>0. PICK k \in Nat : k = Len(u) - 1
  <2>1. Len(u) - 1 \in Nat
    BY <1>2
  <2> QED BY <2>1
<1>4. PICK v : k = Len(u) - 1 /\ v = SubSeq(u, 1, k)
  BY <1>0
<1>5. /\ v \in Seq(Frames) /\ Len(v) = k
      /\ \A i \in 1 .. k : v[i] = u[i]
  <2>1. \A i \in 1 .. k : u[i] \in Frames
    BY <1>2, <1>4
  <2>2. /\ v \in Seq(Frames)
        /\ Len(v) = IF 1 <= k THEN k - 1 + 1 ELSE 0
        /\ \A i \in 1 .. k - 1 + 1 : v[i] = u[1 + i - 1]
    BY <1>4, <2>1, SubSeqProperties, k \in Int
  <2>3. Len(v) = k
    BY <2>2
  <2>4. \A i \in 1 .. k : i \in 1 .. k - 1 + 1 /\ 1 + i - 1 = i
    OBVIOUS
  <2> QED BY <2>2, <2>3, <2>4
<1>6. Pop = v
  BY <1>1, <1>4 DEF Pop, Front
<1>7. Top = u[Len(u)]
  BY <1>1 DEF Top, Last
<1>8. Returned(u, v)
  BY <1>2, <1>0, <1>5 DEF Returned, Alike
<1> QED BY <1>1, <1>2, <1>3, <1>5, <1>6, <1>7, <1>8

LEMMA CallAdds ==
    ASSUME NEW u \in Seq(Frames), NEW v \in Seq(Frames), SameCalls(u, v),
           NEW op \in {"wait", "poll", "handler", "response"},
           NEW r \in Req \cup {Other}, NEW w, w = Append(v, Frame(op, r))
    PROVE  w \in Seq(Frames) /\ Called(u, w, op, r)
<1>1. PICK f \in Frames : f = Frame(op, r) /\ f.op = op /\ f.req = r
  BY FrameTyped
<1>2. w = Append(v, f)
  BY <1>1
<1>3. /\ w \in Seq(Frames) /\ Len(w) = Len(v) + 1
      /\ \A i \in 1 .. Len(v) : w[i] = v[i]
      /\ w[Len(v) + 1] = f
  BY <1>2, AppendProperties
<1>4. Len(v) = Len(u) /\ \A i \in 1 .. Len(v) : v[i].op = u[i].op /\ v[i].req = u[i].req
  BY DEF SameCalls, Alike
<1> QED BY <1>1, <1>3, <1>4 DEF Called, Alike

\* The requests of the calls of one kind: those waited for, those handled.
Doing(op, u) == {u[i].req : i \in {j \in 1 .. Len(u) : u[j].op = op}}

Shrunk(u, v) == Len(v) <= Len(u) /\ Alike(u, v, Len(v))

LEMMA ShrunkCalls ==
    ASSUME NEW u \in Seq(Frames), NEW v \in Seq(Frames),
           SameCalls(u, v) \/ Returned(u, v)
    PROVE  Shrunk(u, v)
<1>1. Len(u) \in Nat /\ Len(v) \in Nat
  OBVIOUS
<1> QED BY <1>1 DEF SameCalls, Returned, Shrunk

LEMMA SameDoing ==
    ASSUME NEW u \in Seq(Frames), NEW v \in Seq(Frames), SameCalls(u, v), NEW op
    PROVE  Doing(op, v) = Doing(op, u)
BY DEF SameCalls, Alike, Doing

LEMMA ShrunkDoing ==
    ASSUME NEW u \in Seq(Frames), NEW v \in Seq(Frames), Shrunk(u, v), NEW op
    PROVE  Doing(op, v) \subseteq Doing(op, u)
<1>1. \A i \in 1 .. Len(v) : /\ i \in 1 .. Len(u)
                             /\ v[i].op = u[i].op /\ v[i].req = u[i].req
  BY DEF Shrunk, Alike
<1> QED BY <1>1 DEF Doing

LEMMA CalledDoing ==
    ASSUME NEW u \in Seq(Frames), NEW v \in Seq(Frames), NEW op, NEW r,
           Called(u, v, op, r), NEW o
    PROVE  /\ o # op => Doing(o, v) = Doing(o, u)
           /\ o = op => Doing(o, v) = Doing(o, u) \cup {r}
<1>1. Len(u) \in Nat /\ Len(v) = Len(u) + 1 /\ Len(v) \in 1 .. Len(v)
  BY DEF Called
<1>2. \A i \in 1 .. Len(u) : /\ i \in 1 .. Len(v)
                             /\ v[i].op = u[i].op /\ v[i].req = u[i].req
  BY <1>1 DEF Called, Alike
<1>3. v[Len(v)].op = op /\ v[Len(v)].req = r
  BY DEF Called
<1>4. \A i \in 1 .. Len(v) : i # Len(v) => i \in 1 .. Len(u)
  BY <1>1
<1>5. \A x : x \in Doing(o, v) <=> \E i \in 1 .. Len(v) : v[i].op = o /\ v[i].req = x
  BY DEF Doing
<1>6. \A x : x \in Doing(o, u) <=> \E i \in 1 .. Len(u) : u[i].op = o /\ u[i].req = x
  BY DEF Doing
<1>7. \A x : x \in Doing(o, u) => x \in Doing(o, v)
  BY <1>2, <1>5, <1>6
<1>8. \A x : x \in Doing(o, v) => x \in Doing(o, u) \/ (o = op /\ x = r)
  BY <1>2, <1>3, <1>4, <1>5, <1>6
<1>9. o = op => r \in Doing(o, v)
  BY <1>1, <1>3, <1>5
<1> QED BY <1>7, <1>8, <1>9

LEMMA ReturnedDoing ==
    ASSUME NEW u \in Seq(Frames), NEW v \in Seq(Frames), u # <<>>,
           Returned(u, v), NEW o
    PROVE  /\ o # u[Len(u)].op => Doing(o, v) = Doing(o, u)
           /\ o = u[Len(u)].op => Doing(o, u) = Doing(o, v) \cup {u[Len(u)].req}
<1>1. Len(u) \in Nat /\ Len(v) = Len(u) - 1 /\ Len(u) \in 1 .. Len(u)
  BY EmptySeq DEF Returned
<1>2. \A i \in 1 .. Len(v) : /\ i \in 1 .. Len(u)
                             /\ v[i].op = u[i].op /\ v[i].req = u[i].req
  BY <1>1 DEF Returned, Alike
<1>3. \A i \in 1 .. Len(u) : i # Len(u) => i \in 1 .. Len(v)
  BY <1>1
<1>4. \A x : x \in Doing(o, v) <=> \E i \in 1 .. Len(v) : v[i].op = o /\ v[i].req = x
  BY DEF Doing
<1>5. \A x : x \in Doing(o, u) <=> \E i \in 1 .. Len(u) : u[i].op = o /\ u[i].req = x
  BY DEF Doing
<1>6. \A x : x \in Doing(o, v) => x \in Doing(o, u)
  BY <1>2, <1>4, <1>5
<1>7. \A x : x \in Doing(o, u) =>
          \/ x \in Doing(o, v)
          \/ o = u[Len(u)].op /\ x = u[Len(u)].req
  BY <1>2, <1>3, <1>4, <1>5
<1>8. o = u[Len(u)].op => u[Len(u)].req \in Doing(o, u)
  BY <1>1, <1>5
<1> QED BY <1>6, <1>7, <1>8

LEMMA HandlingIs ==
    /\ Handling = Doing("response", stack)
    /\ Handling' = Doing("response", stack')
BY DEF Handling, Doing

\* A synchronous request is waited for by a call.
Awaited(r) == \E i \in Waits : stack[i].req = r

LEMMA AwaitedIs ==
    /\ \A r : Awaited(r) <=> r \in Doing("wait", stack)
    /\ \A r : Awaited(r)' <=> r \in Doing("wait", stack')
BY DEF Awaited, Waits, Doing

-----------------------------------------------------------------------------
(* FramesSound. *)

\* A request is sent in one way.
SentKept(m, n) == \A r \in Req : m[r] # "no" => n[r] = m[r]

\* The senders that the calls of u wait for are told nothing.
WaitersUntold(u, o, p) ==
    \A i \in 1 .. Len(u) : u[i].op = "wait" => p[u[i].req] = o[u[i].req]

LEMMA FramesShrunk ==
    ASSUME FramesSound, stack' \in Seq(Frames), Len(stack) \in Nat,
           Shrunk(stack, stack'), SentKept(mode, mode'),
           WaitersUntold(stack', outcome, outcome')
    PROVE  FramesSound'
<1>1. Len(stack') \in Nat
  OBVIOUS
<1>2. \A i \in 1 .. Len(stack') :
         /\ i \in 1 .. Len(stack)
         /\ stack'[i].op = stack[i].op /\ stack'[i].req = stack[i].req
  BY <1>1 DEF Shrunk, Alike
<1>3. \A i \in 1 .. Len(stack') : Serves(i)' => Serves(i)
  BY <1>2 DEF Serves
<1>4. \A i \in 1 .. Len(stack') : Serves(i)' => stack'[i].req \in Req
  BY <1>2, <1>3 DEF FramesSound
<1>5. \A i \in 1 .. Len(stack') : stack'[i].op = "wait" =>
         mode'[stack'[i].req] = "sync" /\ outcome'[stack'[i].req] = "none"
  <2> SUFFICES ASSUME NEW i \in 1 .. Len(stack'), stack'[i].op = "wait"
               PROVE  /\ mode'[stack'[i].req] = "sync"
                      /\ outcome'[stack'[i].req] = "none"
    OBVIOUS
  <2>1. PICK r : r = stack'[i].req
    OBVIOUS
  <2>2. /\ stack[i].op = "wait" /\ stack[i].req = r /\ i \in 1 .. Len(stack)
    BY <1>2, <2>1
  <2>3. r \in Req /\ mode[r] = "sync" /\ outcome[r] = "none"
    BY <2>2 DEF FramesSound, Serves
  <2>4. outcome'[r] = outcome[r]
    BY <2>1 DEF WaitersUntold
  <2>5. mode'[r] = mode[r]
    BY <2>3 DEF SentKept
  <2> QED BY <2>1, <2>3, <2>4, <2>5
<1>6. \A i \in 1 .. Len(stack') : stack'[i].op = "response" =>
         mode'[stack'[i].req] = "async"
  <2> SUFFICES ASSUME NEW i \in 1 .. Len(stack'), stack'[i].op = "response"
               PROVE  mode'[stack'[i].req] = "async"
    OBVIOUS
  <2>1. PICK r : r = stack'[i].req
    OBVIOUS
  <2>2. /\ stack[i].op = "response" /\ stack[i].req = r /\ i \in 1 .. Len(stack)
    BY <1>2, <2>1
  <2>3. r \in Req /\ mode[r] = "async"
    BY <2>2 DEF FramesSound, Serves
  <2> QED BY <2>1, <2>3 DEF SentKept
<1>7. \A i, j \in 1 .. Len(stack') :
         Serves(i)' /\ Serves(j)' /\ stack'[i].req = stack'[j].req => i = j
  BY <1>2, <1>3 DEF FramesSound
<1> QED BY <1>4, <1>5, <1>6, <1>7 DEF FramesSound

LEMMA FramesCalled ==
    ASSUME FramesSound, stack \in Seq(Frames), stack' \in Seq(Frames),
           NEW op \in {"wait", "poll", "handler", "response"},
           NEW r \in Req \cup {Other}, Called(stack, stack', op, r),
           SentKept(mode, mode'), WaitersUntold(stack, outcome, outcome'),
           op \in {"wait", "response"} =>
              /\ r \in Req
              /\ r \notin Doing("wait", stack) /\ r \notin Doing("response", stack),
           op = "wait" => mode'[r] = "sync" /\ outcome'[r] = "none",
           op = "response" => mode'[r] = "async"
    PROVE  FramesSound'
<1>1. Len(stack) \in Nat /\ Len(stack') = Len(stack) + 1
  BY DEF Called
<1>2. PICK n \in Nat : n = Len(stack')
  BY <1>1
<1>3. \A i \in 1 .. Len(stack) :
         /\ i \in 1 .. n /\ i # n
         /\ stack'[i].op = stack[i].op /\ stack'[i].req = stack[i].req
  BY <1>1, <1>2 DEF Called, Alike
<1>4. \A i \in 1 .. n : i # n => i \in 1 .. Len(stack)
  BY <1>1, <1>2
<1>5. stack'[n].op = op /\ stack'[n].req = r
  BY <1>2 DEF Called
<1>6. \A i \in 1 .. Len(stack) : Serves(i)' => Serves(i)
  BY <1>3 DEF Serves
<1>7. \A i \in 1 .. n : Serves(i)' => stack'[i].req \in Req
  <2> SUFFICES ASSUME NEW i \in 1 .. n, Serves(i)' PROVE stack'[i].req \in Req
    OBVIOUS
  <2>1. CASE i = n
    BY <1>5, <2>1 DEF Serves
  <2>2. CASE i # n
    BY <1>3, <1>4, <1>6, <2>2 DEF FramesSound
  <2> QED BY <2>1, <2>2
<1>8. \A i \in 1 .. n : stack'[i].op = "wait" =>
         mode'[stack'[i].req] = "sync" /\ outcome'[stack'[i].req] = "none"
  <2> SUFFICES ASSUME NEW i \in 1 .. n, stack'[i].op = "wait"
               PROVE  /\ mode'[stack'[i].req] = "sync"
                      /\ outcome'[stack'[i].req] = "none"
    OBVIOUS
  <2>1. CASE i = n
    BY <1>5, <2>1
  <2>2. CASE i # n
    <3>1. i \in 1 .. Len(stack)
      BY <1>4, <2>2
    <3>2. PICK q : q = stack[i].req /\ q = stack'[i].req
      BY <1>3, <3>1
    <3>3. stack[i].op = "wait"
      BY <1>3, <3>1
    <3>4. q \in Req /\ mode[q] = "sync" /\ outcome[q] = "none"
      BY <3>1, <3>2, <3>3 DEF FramesSound, Serves
    <3>5. outcome'[q] = outcome[q]
      BY <3>1, <3>2, <3>3 DEF WaitersUntold
    <3>6. mode'[q] = mode[q]
      BY <3>4 DEF SentKept
    <3> QED BY <3>2, <3>4, <3>5, <3>6
  <2> QED BY <2>1, <2>2
<1>9. \A i \in 1 .. n : stack'[i].op = "response" => mode'[stack'[i].req] = "async"
  <2> SUFFICES ASSUME NEW i \in 1 .. n, stack'[i].op = "response"
               PROVE  mode'[stack'[i].req] = "async"
    OBVIOUS
  <2>1. CASE i = n
    BY <1>5, <2>1
  <2>2. CASE i # n
    <3>1. i \in 1 .. Len(stack)
      BY <1>4, <2>2
    <3>2. PICK q : q = stack[i].req /\ q = stack'[i].req
      BY <1>3, <3>1
    <3>3. stack[i].op = "response"
      BY <1>3, <3>1
    <3>4. q \in Req /\ mode[q] = "async"
      BY <3>1, <3>2, <3>3 DEF FramesSound, Serves
    <3> QED BY <3>2, <3>4 DEF SentKept
  <2> QED BY <2>1, <2>2
<1>10. \A i \in 1 .. Len(stack) : Serves(i) =>
          stack[i].req \in Doing("wait", stack) \cup Doing("response", stack)
  BY DEF Serves, Doing
<1>11. \A i, j \in 1 .. n :
          Serves(i)' /\ Serves(j)' /\ stack'[i].req = stack'[j].req => i = j
  <2> SUFFICES ASSUME NEW i \in 1 .. n, NEW j \in 1 .. n, Serves(i)', Serves(j)',
                      stack'[i].req = stack'[j].req
               PROVE  i = j
    OBVIOUS
  <2>1. CASE i # n /\ j # n
    BY <1>3, <1>4, <1>6, <2>1 DEF FramesSound
  <2>2. ASSUME NEW k \in 1 .. Len(stack), Serves(n)', Serves(k)'
        PROVE  stack'[k].req # stack'[n].req
    <3>1. op \in {"wait", "response"}
      BY <1>5, <2>2 DEF Serves
    <3> QED BY <1>3, <1>5, <1>6, <1>10, <2>2, <3>1
  <2> QED BY <1>4, <2>1, <2>2
<1> QED BY <1>2, <1>7, <1>8, <1>9, <1>11 DEF FramesSound

-----------------------------------------------------------------------------
(* The list of pending requests. *)

\* q is p without those in R.
Fewer(p, q, R) ==
    /\ ToSet(q) = ToSet(p) \ R
    /\ IsInjective(p) => IsInjective(q)
    /\ \A x, y : Precedes(q, x, y) => Precedes(p, x, y)
    /\ \A x, y : Precedes(p, x, y) /\ x \notin R /\ y \notin R => Precedes(q, x, y)

LEMMA UnlinkFewer ==
    ASSUME pending \in Seq(Req), NEW R, Unlink(R)
    PROVE  /\ pending' \in Seq(Req) /\ Fewer(pending, pending', R)
           /\ due' = due \ R /\ lost' = lost \ R
<1>1. PICK q \in Seq(Req) : q = pending
  OBVIOUS
<1>2. PICK u : u = Without(q, R)
  OBVIOUS
<1>3. /\ u \in Seq(Req)
      /\ ToSet(u) = ToSet(q) \ R
      /\ IsInjective(q) => IsInjective(u)
      /\ \A x, y : Precedes(u, x, y) =>
            Precedes(q, x, y) /\ x \notin R /\ y \notin R
      /\ \A x, y : Precedes(q, x, y) /\ x \notin R /\ y \notin R =>
            Precedes(u, x, y)
  BY <1>2, WithoutMembers
<1>4. Fewer(q, u, R)
  BY <1>3 DEF Fewer
<1>5. pending' = u /\ due' = due \ R /\ lost' = lost \ R
  BY <1>1, <1>2 DEF Unlink
<1> QED BY <1>1, <1>3, <1>4, <1>5

LEMMA SameFewer == \A p : Fewer(p, p, {})
BY DEF Fewer

LEMMA BeforeIs ==
    /\ \A x, y : Before(x, y) <=> Precedes(pending, x, y)
    /\ \A x, y : Before(x, y)' <=> Precedes(pending', x, y)
BY DEF Before, Precedes

LEMMA UnsentKept ==
    ASSUME UnsentBlank, SentKept(mode, mode'),
           \A r \in Req : mode'[r] = "no" =>
              /\ slot'[r] = slot[r] /\ outcome'[r] = outcome[r]
              /\ r \in ToSet(pending') => r \in ToSet(pending)
    PROVE  UnsentBlank'
BY DEF UnsentBlank, SentKept

-----------------------------------------------------------------------------
(* ContextsLive. *)

Contexts(p, m, s, u) ==
    /\ IsInjective(p)
    /\ \A r \in Req : m[r] = "sync" =>
          (r \in ToSet(p) <=> s[r] = "null" /\ r \in Doing("wait", u))

LEMMA ContextsAre ==
    /\ ContextsLive <=> Contexts(pending, mode, slot, stack)
    /\ ContextsLive' <=> Contexts(pending', mode', slot', stack')
BY DEF ContextsLive, Contexts, Doing, Waits

\* The requests in R are unlinked: the contexts of those that are waited for
\* are gone, or their slots are set.
ContextsEnd(R, s, t, u, v) ==
    \A r \in Req : mode[r] = "sync" =>
       (t[r] = "null" /\ r \in Doing("wait", v)
          <=> s[r] = "null" /\ r \in Doing("wait", u) /\ r \notin R)

LEMMA ContextsFewer ==
    ASSUME ContextsLive, NEW R, Fewer(pending, pending', R), mode' = mode,
           ContextsEnd(R, slot, slot', stack, stack')
    PROVE  ContextsLive'
<1>1. Contexts(pending, mode, slot, stack)
  BY ContextsAre
<1>2. IsInjective(pending') /\ ToSet(pending') = ToSet(pending) \ R
  BY <1>1 DEF Fewer, Contexts
<1>3. Contexts(pending', mode', slot', stack')
  BY <1>1, <1>2 DEF Contexts, ContextsEnd
<1> QED BY <1>3, ContextsAre

-----------------------------------------------------------------------------
(* InnermostFirst. *)

Innermost(p, m, u) ==
    /\ \A i, j \in 1 .. Len(u) :
          u[i].op = "wait" /\ u[j].op = "wait" /\ i < j
             /\ u[i].req \in ToSet(p) /\ u[j].req \in ToSet(p)
          => Precedes(p, u[j].req, u[i].req)
    /\ \A i \in 1 .. Len(u) : u[i].op = "wait" /\ u[i].req \in ToSet(p) =>
          \A q \in ToSet(p) : Precedes(p, q, u[i].req) => m[q] = "sync"

LEMMA InnermostIs ==
    /\ InnermostFirst <=> Innermost(pending, mode, stack)
    /\ InnermostFirst' <=> Innermost(pending', mode', stack')
<1>1. \A x, y, T : {x, y} \subseteq T <=> x \in T /\ y \in T
  OBVIOUS
<1>2. /\ \A i : i \in Waits <=> i \in 1 .. Len(stack) /\ stack[i].op = "wait"
      /\ \A i : i \in Waits' <=> i \in 1 .. Len(stack') /\ stack'[i].op = "wait"
  BY DEF Waits
<1>3. InnermostFirst <=> Innermost(pending, mode, stack)
  BY <1>1, <1>2, BeforeIs DEF InnermostFirst, Innermost
<1>4. InnermostFirst' <=> Innermost(pending', mode', stack')
  BY <1>1, <1>2, BeforeIs DEF InnermostFirst, Innermost
<1> QED BY <1>3, <1>4

\* The calls that wait in v are among those of u.
WaitsWithin(u, v) ==
    \A i \in 1 .. Len(v) : v[i].op = "wait" =>
       i \in 1 .. Len(u) /\ u[i].op = "wait" /\ v[i].req = u[i].req

LEMMA InnermostFewer ==
    ASSUME InnermostFirst, pending \in Seq(Req), NEW R,
           Fewer(pending, pending', R),
           \A r \in ToSet(pending) : mode'[r] = mode[r],
           WaitsWithin(stack, stack')
    PROVE  InnermostFirst'
<1>1. Innermost(pending, mode, stack)
  BY InnermostIs
<1>2. PICK p, q, m, n, u, v :
         /\ p = pending /\ q = pending' /\ m = mode /\ n = mode'
         /\ u = stack /\ v = stack'
  OBVIOUS
<1>3. /\ Innermost(p, m, u) /\ Fewer(p, q, R)
      /\ \A r \in ToSet(p) : n[r] = m[r]
      /\ WaitsWithin(u, v)
  BY <1>1, <1>2
<1>4. /\ ToSet(q) = ToSet(p) \ R
      /\ \A x, y : Precedes(q, x, y) => Precedes(p, x, y)
      /\ \A x, y : Precedes(p, x, y) /\ x \notin R /\ y \notin R => Precedes(q, x, y)
  BY <1>3 DEF Fewer
<1>5. \A i, j \in 1 .. Len(v) :
          v[i].op = "wait" /\ v[j].op = "wait" /\ i < j
             /\ v[i].req \in ToSet(q) /\ v[j].req \in ToSet(q)
          => Precedes(q, v[j].req, v[i].req)
  <2> SUFFICES ASSUME NEW i \in 1 .. Len(v), NEW j \in 1 .. Len(v),
                      v[i].op = "wait", v[j].op = "wait", i < j,
                      v[i].req \in ToSet(q), v[j].req \in ToSet(q)
               PROVE  Precedes(q, v[j].req, v[i].req)
    OBVIOUS
  <2>1. /\ i \in 1 .. Len(u) /\ u[i].op = "wait" /\ u[i].req = v[i].req
        /\ j \in 1 .. Len(u) /\ u[j].op = "wait" /\ u[j].req = v[j].req
    BY <1>3 DEF WaitsWithin
  <2>2. Precedes(p, u[j].req, u[i].req)
    BY <1>3, <1>4, <2>1 DEF Innermost
  <2> QED BY <1>4, <2>1, <2>2
<1>6. \A i \in 1 .. Len(v) : v[i].op = "wait" /\ v[i].req \in ToSet(q) =>
          \A x \in ToSet(q) : Precedes(q, x, v[i].req) => n[x] = "sync"
  BY <1>3, <1>4 DEF Innermost, WaitsWithin
<1>7. Innermost(q, n, v)
  BY <1>5, <1>6 DEF Innermost
<1> QED BY <1>2, <1>7, InnermostIs

LEMMA ShrunkWaits ==
    ASSUME NEW u \in Seq(Frames), NEW v \in Seq(Frames), Shrunk(u, v)
    PROVE  WaitsWithin(u, v)
<1>1. Len(u) \in Nat /\ Len(v) \in Nat
  OBVIOUS
<1> QED BY <1>1 DEF Shrunk, Alike, WaitsWithin

LEMMA CalledWaits ==
    ASSUME NEW u \in Seq(Frames), NEW v \in Seq(Frames), NEW op, NEW r,
           op # "wait", Called(u, v, op, r)
    PROVE  WaitsWithin(u, v)
<1>1. Len(u) \in Nat /\ Len(v) = Len(u) + 1
  BY DEF Called
<1>2. \A i \in 1 .. Len(v) : i # Len(v) => i \in 1 .. Len(u)
  BY <1>1
<1> QED BY <1>2 DEF Called, Alike, WaitsWithin

-----------------------------------------------------------------------------
(* AnsweredOnce. *)

\* Requests that were sent stay sent, through the same source.
ViaKept(m, v, n, w) == \A r \in Req : m[r] # "no" => n[r] # "no" /\ w[r] = v[r]

LEMMA AnswersKept ==
    ASSUME NEW s, NEW a \in Seq(Req), NEW b \in Seq(Req \cup {Other}),
           NEW m, NEW v, NEW H, NEW n, NEW w, NEW K,
           Answers(s, a, b, m, v, H), ViaKept(m, v, n, w),
           \A r \in K : r \in H \/ (r \notin ToSet(a) /\ r \notin ToSet(b))
    PROVE  Answers(s, a, b, n, w, K)
<1>1. ToSet(a) \subseteq Req /\ ToSet(b) \subseteq Req \cup {Other}
  BY Members
<1> QED BY <1>1 DEF Answers, ViaKept

LEMMA AnswersAsk ==
    ASSUME NEW s, NEW a \in Seq(Req), NEW b \in Seq(Req \cup {Other}),
           NEW m, NEW v, NEW H, NEW n, NEW w, NEW K,
           Answers(s, a, b, m, v, H), ViaKept(m, v, n, w), K \subseteq H,
           NEW r \in Req, r # Other, m[r] = "no", n[r] # "no", w[r] = s, r \notin H,
           NEW c, Appended(a, r, c)
    PROVE  c \in Seq(Req) /\ Answers(s, c, b, n, w, K)
<1>1. ToSet(a) \subseteq Req /\ ToSet(b) \subseteq Req \cup {Other}
  BY Members
<1>2. r \notin ToSet(a) /\ r \notin ToSet(b) /\ IsInjective(a)
  BY DEF Answers
<1>3. /\ c \in Seq(Req) /\ ToSet(c) = ToSet(a) \cup {r} /\ IsInjective(c)
  BY <1>2, AppendedMembers
<1> QED BY <1>1, <1>2, <1>3 DEF Answers, ViaKept

\* The first message of s is read: h is Head(b), c is Tail(b).
LEMMA AnswersRead ==
    ASSUME NEW s, NEW a \in Seq(Req), NEW b \in Seq(Req \cup {Other}), b # <<>>,
           NEW m, NEW v, NEW H, NEW K,
           Answers(s, a, b, m, v, H),
           NEW c \in Seq(Req \cup {Other}), Len(c) = Len(b) - 1,
           \A i \in 1 .. Len(c) : c[i] = b[i + 1],
           NEW h, h = b[1], K \subseteq H \cup ({h} \ {Other})
    PROVE  Answers(s, a, c, m, v, K)
<1>2. /\ c \in Seq(Req \cup {Other}) /\ Len(c) = Len(b) - 1
      /\ h = b[1] /\ \A i \in 1 .. Len(c) : c[i] = b[i + 1]
  OBVIOUS
<1>3. Len(b) \in Nat \ {0}
  BY EmptySeq
<1>4. \A i \in 1 .. Len(c) : i + 1 \in 1 .. Len(b) /\ i + 1 # 1
  BY <1>2, <1>3
<1>5. 1 \in 1 .. Len(b)
  BY <1>3
<1>6. \A x : x \in ToSet(c) <=> \E i \in 1 .. Len(c) : c[i] = x
  BY <1>2, Members
<1>7. \A x : x \in ToSet(b) <=> \E i \in 1 .. Len(b) : b[i] = x
  BY Members
<1>8. ToSet(c) \subseteq ToSet(b) /\ h \in ToSet(b)
  BY <1>2, <1>4, <1>5, <1>6, <1>7
<1>9. \A i, j \in 1 .. Len(b) : b[i] = b[j] /\ b[i] # Other => i = j
  BY DEF Answers
<1>10. \A i, j \in 1 .. Len(c) : c[i] = c[j] /\ c[i] # Other => i = j
  <2> SUFFICES ASSUME NEW i \in 1 .. Len(c), NEW j \in 1 .. Len(c),
                      c[i] = c[j], c[i] # Other
               PROVE  i = j
    OBVIOUS
  <2>1. i + 1 = j + 1
    BY <1>2, <1>4, <1>9
  <2> QED BY <2>1
<1>11. h # Other => h \notin ToSet(c)
  BY <1>2, <1>4, <1>5, <1>6, <1>9
<1>12. K \subseteq H \cup ({h} \ {Other})
  OBVIOUS
<1>13. h # Other => h \notin ToSet(a)
  BY <1>8 DEF Answers
<1>14. \A r \in ToSet(a) \cup (ToSet(c) \ {Other}) :
          m[r] # "no" /\ v[r] = s /\ r \notin K
  BY <1>8, <1>11, <1>12, <1>13 DEF Answers
<1>15. IsInjective(a) /\ \A r \in ToSet(a) : r \notin ToSet(c)
  BY <1>8 DEF Answers
<1>16. Answers(s, a, c, m, v, K)
  BY <1>10, <1>14, <1>15 DEF Answers
<1> QED BY <1>16

\* An answer moves from what was asked to what was sent, or another message is
\* sent.
LEMMA AnswersSent ==
    ASSUME NEW s, NEW a \in Seq(Req), NEW b \in Seq(Req \cup {Other}),
           NEW m, NEW v, NEW H, Answers(s, a, b, m, v, H),
           NEW d \in Seq(Req), ToSet(d) \subseteq ToSet(a), IsInjective(d),
           NEW x \in Req \cup {Other},
           x # Other => x \in ToSet(a) /\ x \notin ToSet(d),
           x = Other => x \notin ToSet(d),
           NEW c, Appended(b, x, c)
    PROVE  c \in Seq(Req \cup {Other}) /\ Answers(s, d, c, m, v, H)
<1>0. PICK S : S = Req \cup {Other} /\ b \in Seq(S) /\ x \in S
  OBVIOUS
<1>02. b \in Seq(S) /\ x \in S
  BY <1>0
<1>03. c \in Seq(S)
  BY <1>02, AppendedMembers
<1>04. Len(c) = Len(b) + 1 /\ c[Len(b) + 1] = x
  BY <1>02, AppendedMembers
<1>05. \A i \in 1 .. Len(b) : c[i] = b[i]
  BY <1>02, AppendedMembers
<1>06. ToSet(c) = ToSet(b) \cup {x}
  BY <1>02, AppendedMembers
<1>01. /\ c \in Seq(S) /\ Len(c) = Len(b) + 1
       /\ \A i \in 1 .. Len(b) : c[i] = b[i]
       /\ c[Len(b) + 1] = x
       /\ ToSet(c) = ToSet(b) \cup {x}
  BY <1>03, <1>04, <1>05, <1>06
<1>1. /\ c \in Seq(Req \cup {Other}) /\ Len(c) = Len(b) + 1
      /\ \A i \in 1 .. Len(b) : c[i] = b[i]
      /\ c[Len(b) + 1] = x
  BY <1>0, <1>01
<1>2. ToSet(c) = ToSet(b) \cup {x}
  BY <1>01
<1>3. Len(b) \in Nat
  OBVIOUS
<1>4. \A i \in 1 .. Len(c) : i # Len(b) + 1 => i \in 1 .. Len(b)
  BY <1>1, <1>3
<1>5. \A y : y \in ToSet(b) <=> \E i \in 1 .. Len(b) : b[i] = y
  BY Members
<1>6. x # Other => x \notin ToSet(b)
  BY DEF Answers
<1>7. \A i, j \in 1 .. Len(c) : c[i] = c[j] /\ c[i] # Other => i = j
  <2> SUFFICES ASSUME NEW i \in 1 .. Len(c), NEW j \in 1 .. Len(c),
                      c[i] = c[j], c[i] # Other
               PROVE  i = j
    OBVIOUS
  <2>1. CASE i # Len(b) + 1 /\ j # Len(b) + 1
    BY <1>1, <1>4, <2>1 DEF Answers
  <2>2. CASE i = Len(b) + 1 /\ j # Len(b) + 1
    BY <1>1, <1>4, <1>5, <1>6, <2>2
  <2>3. CASE i # Len(b) + 1 /\ j = Len(b) + 1
    BY <1>1, <1>4, <1>5, <1>6, <2>3
  <2> QED BY <2>1, <2>2, <2>3
<1>8. \A r \in ToSet(d) : r \notin ToSet(c)
  BY <1>2 DEF Answers
<1>9. \A r \in ToSet(d) \cup (ToSet(c) \ {Other}) :
         m[r] # "no" /\ v[r] = s /\ r \notin H
  BY <1>2 DEF Answers
<1>10. Answers(s, d, c, m, v, H)
  BY <1>7, <1>8, <1>9 DEF Answers
<1> QED BY <1>1, <1>10

LEMMA AnsweredKept ==
    ASSUME TypeOK, AnsweredOnce, asked' = asked, inbox' = inbox,
           ViaKept(mode, via, mode', via'),
           Doing("response", stack') \subseteq Doing("response", stack)
    PROVE  AnsweredOnce'
<1> SUFFICES ASSUME NEW s \in Src
             PROVE  Answers(s, asked'[s], inbox'[s], mode', via', Handling')
  BY DEF AnsweredOnce
<1>1. PICK a \in Seq(Req), b \in Seq(Req \cup {Other}) :
         a = asked[s] /\ b = inbox[s] /\ a = asked'[s] /\ b = inbox'[s]
  BY DEF TypeOK
<1>2. PICK m, v, H, n, w, K :
         /\ m = mode /\ v = via /\ n = mode' /\ w = via'
         /\ H = Handling /\ K = Handling'
  OBVIOUS
<1>3. Answers(s, a, b, m, v, H)
  BY <1>1, <1>2 DEF AnsweredOnce
<1>4. ViaKept(m, v, n, w) /\ K \subseteq H
  BY <1>2, HandlingIs
<1>5. Answers(s, a, b, n, w, K)
  BY <1>3, <1>4, AnswersKept
<1> QED BY <1>1, <1>2, <1>5

-----------------------------------------------------------------------------
(* Sending. *)

LEMMA SendFails ==
    ASSUME IInv, NEW r \in Req, NEW how \in {"async", "sync"}, send_fails(r, how)
    PROVE  IInv'
<1>1. /\ mode[r] = "no" /\ mode' = [mode EXCEPT ![r] = how]
      /\ outcome' = [outcome EXCEPT ![r] = "error"]
      /\ pending' = pending /\ due' = due /\ lost' = lost /\ via' = via
      /\ asked' = asked /\ inbox' = inbox /\ stack' = stack /\ slot' = slot
      /\ link' = link
  BY DEF send_fails, list
<1>2. TypeOK'
  BY <1>1 DEF IInv, TypeOK, Endings
<1>3. stack \in Seq(Frames) /\ pending \in Seq(Req) /\ Len(stack) \in Nat
  BY DEF IInv, TypeOK
<1>4. SentKept(mode, mode')
  BY <1>1 DEF IInv, TypeOK, SentKept
<1>5. ViaKept(mode, via, mode', via')
  BY <1>1 DEF IInv, TypeOK, ViaKept
<1>6. \A i \in 1 .. Len(stack) : stack[i].op = "wait" => stack[i].req # r
  BY <1>1 DEF IInv, FramesSound
<1>7. FramesSound'
  <2>1. WaitersUntold(stack', outcome, outcome')
    BY <1>1, <1>6 DEF IInv, TypeOK, WaitersUntold, FramesSound, Serves
  <2>2. Shrunk(stack, stack')
    BY <1>1, <1>3 DEF Shrunk, Alike
  <2> QED BY <1>1, <1>3, <1>4, <2>1, <2>2, FramesShrunk DEF IInv
<1>8. UnsentBlank'
  BY <1>1, <1>4, UnsentKept DEF IInv, TypeOK
<1>9. AnsweredOnce'
  BY <1>1, <1>5, AnsweredKept DEF IInv
<1>10. r \notin ToSet(pending) /\ r \notin Doing("wait", stack)
  BY <1>1, <1>6 DEF IInv, UnsentBlank, Doing
<1>11. ContextsLive'
  <2>1. Contexts(pending, mode, slot, stack)
    BY ContextsAre DEF IInv
  <2>2. Contexts(pending', mode', slot', stack')
    BY <1>1, <1>10, <2>1 DEF IInv, TypeOK, Contexts
  <2> QED BY <2>2, ContextsAre
<1>12. InnermostFirst'
  <2>1. \A q \in ToSet(pending) : mode'[q] = mode[q]
    <3>1. ToSet(pending) \subseteq Req
      BY <1>3, Members
    <3> QED BY <1>1, <1>10, <3>1 DEF IInv, TypeOK
  <2>2. Fewer(pending, pending', {})
    BY <1>1, SameFewer
  <2>3. WaitsWithin(stack, stack')
    BY <1>1 DEF WaitsWithin
  <2> QED BY <1>3, <2>1, <2>2, <2>3, InnermostFewer DEF IInv
<1> QED BY <1>2, <1>7, <1>8, <1>9, <1>11, <1>12 DEF IInv

\* What both kinds of sending do to the books.
LEMMA DispatchedBooks ==
    ASSUME IInv, NEW r \in Req, NEW s \in Src, NEW how \in {"async", "sync"},
           Dispatched(r, s, how), inbox' = inbox,
           Doing("response", stack') \subseteq Doing("response", stack)
    PROVE  /\ mode[r] = "no" /\ mode' = [mode EXCEPT ![r] = how]
           /\ mode' \in [Req -> {"no", "async", "sync"}]
           /\ via' \in [Req -> Src] /\ asked' \in [Src -> Seq(Req)]
           /\ SentKept(mode, mode')
           /\ r \notin ToSet(pending)
           /\ r \notin Doing("wait", stack) /\ r \notin Doing("response", stack)
           /\ AnsweredOnce'
<1>1. /\ mode[r] = "no" /\ mode' = [mode EXCEPT ![r] = how]
      /\ via' = [via EXCEPT ![r] = s]
      /\ asked' = [asked EXCEPT ![s] = Append(@, r)]
  BY DEF Dispatched
<1>2. mode' \in [Req -> {"no", "async", "sync"}] /\ via' \in [Req -> Src]
  BY <1>1 DEF IInv, TypeOK
<1>3. SentKept(mode, mode') /\ ViaKept(mode, via, mode', via')
  BY <1>1 DEF IInv, TypeOK, SentKept, ViaKept
<1>4. /\ r \notin ToSet(pending)
      /\ r \notin Doing("wait", stack) /\ r \notin Doing("response", stack)
  BY <1>1 DEF IInv, UnsentBlank, FramesSound, Doing
<1>5. PICK m, v, H, n, w, K :
         /\ m = mode /\ v = via /\ n = mode' /\ w = via'
         /\ H = Handling /\ K = Handling'
  OBVIOUS
<1>6. ViaKept(m, v, n, w) /\ K \subseteq H /\ r \notin H
  BY <1>3, <1>4, <1>5, HandlingIs
<1>7. m[r] = "no" /\ n[r] # "no" /\ w[r] = s /\ r # Other
  BY <1>1, <1>5, RequestsAssumption DEF IInv, TypeOK
<1>8. PICK a, b, c :
         a \in Seq(Req) /\ b \in Seq(Req \cup {Other}) /\ a = asked[s] /\ b = inbox[s] /\ Appended(a, r, c)
         /\ asked' = [asked EXCEPT ![s] = c]
  BY <1>1 DEF IInv, TypeOK, Appended
<1>9. Answers(s, a, b, m, v, H)
  BY <1>5, <1>8 DEF IInv, AnsweredOnce
<1>10. c \in Seq(Req) /\ Answers(s, c, b, n, w, K)
  BY <1>6, <1>7, <1>8, <1>9, AnswersAsk
<1>11. asked' = [asked EXCEPT ![s] = c]
  BY <1>8
<1>12. asked' \in [Src -> Seq(Req)]
  BY <1>10, <1>11 DEF IInv, TypeOK
<1>13. ASSUME NEW t \in Src
       PROVE  Answers(t, asked'[t], inbox'[t], n, w, K)
  <2>1. CASE t = s
    BY <1>8, <1>10, <1>11, <2>1 DEF IInv, TypeOK
  <2>2. CASE t # s
    <3>1. PICK d \in Seq(Req), e \in Seq(Req \cup {Other}) :
             d = asked[t] /\ e = inbox[t] /\ d = asked'[t] /\ e = inbox'[t]
      BY <1>11, <2>2 DEF IInv, TypeOK
    <3>2. Answers(t, d, e, m, v, H)
      BY <1>5, <3>1 DEF IInv, AnsweredOnce
    <3>3. Answers(t, d, e, n, w, K)
      BY <1>6, <3>2, AnswersKept
    <3> QED BY <3>1, <3>3
  <2> QED BY <2>1, <2>2
<1>14. AnsweredOnce'
  BY <1>5, <1>13 DEF AnsweredOnce
<1> QED BY <1>1, <1>2, <1>3, <1>4, <1>12, <1>14

LEMMA SendAsync ==
    ASSUME IInv, NEW r \in Req, NEW s \in Src, pcrdr_send_request(r, s)
    PROVE  IInv'
<1>1. /\ Dispatched(r, s, "async") /\ pending' = Append(pending, r)
      /\ due' = due /\ lost' = lost /\ inbox' = inbox /\ stack' = stack
      /\ slot' = slot /\ outcome' = outcome /\ link' = link
  BY DEF pcrdr_send_request
<1>2. /\ mode[r] = "no" /\ mode' = [mode EXCEPT ![r] = "async"]
      /\ mode' \in [Req -> {"no", "async", "sync"}]
      /\ via' \in [Req -> Src] /\ asked' \in [Src -> Seq(Req)]
      /\ SentKept(mode, mode')
      /\ r \notin ToSet(pending)
      /\ r \notin Doing("wait", stack)
      /\ AnsweredOnce'
  BY <1>1, DispatchedBooks
<1>3. stack \in Seq(Frames) /\ pending \in Seq(Req) /\ Len(stack) \in Nat
  BY DEF IInv, TypeOK
<1>4. PICK p, q : p \in Seq(Req) /\ p = pending /\ q = pending' /\ Appended(p, r, q)
  BY <1>1, <1>3 DEF Appended
<1>5. q \in Seq(Req) /\ ToSet(q) = ToSet(p) \cup {r}
  BY <1>4, AppendedMembers
<1>6. IsInjective(p) => IsInjective(q)
  BY <1>2, <1>4, AppendedMembers
<1>7. \A x, y : Precedes(q, x, y) <=> Precedes(p, x, y) \/ (y = r /\ x \in ToSet(p))
  BY <1>4, AppendedMembers
<1>8. TypeOK'
  BY <1>1, <1>2, <1>4, <1>5 DEF IInv, TypeOK
<1>9. FramesSound'
  <2>1. WaitersUntold(stack', outcome, outcome') /\ Shrunk(stack, stack')
    BY <1>1, <1>3 DEF WaitersUntold, Shrunk, Alike
  <2> QED BY <1>1, <1>2, <1>3, <2>1, FramesShrunk DEF IInv
<1>10. UnsentBlank'
  BY <1>1, <1>2, <1>4, <1>5, UnsentKept DEF IInv, TypeOK
<1>11. ContextsLive'
  <2>1. Contexts(p, mode, slot, stack)
    BY <1>4, ContextsAre DEF IInv
  <2>2. Contexts(q, mode', slot', stack')
    BY <1>1, <1>2, <1>5, <1>6, <2>1 DEF IInv, TypeOK, Contexts
  <2> QED BY <1>4, <2>2, ContextsAre
<1>12. InnermostFirst'
  <2>1. Innermost(p, mode, stack)
    BY <1>4, InnermostIs DEF IInv
  <2>2. PICK u : u = stack /\ u = stack'
    BY <1>1
  <2>3. \A i \in 1 .. Len(u) : u[i].op = "wait" => u[i].req # r
    BY <1>2, <2>2 DEF Doing
  <2>4. \A x \in ToSet(p) : mode'[x] = mode[x]
    BY <1>2, <1>4 DEF IInv, UnsentBlank, TypeOK, SentKept
  <2>5. PICK m, n : m = mode /\ n = mode'
    OBVIOUS
  <2>6. Innermost(p, m, u) /\ \A x \in ToSet(p) : n[x] = m[x]
    BY <2>1, <2>2, <2>4, <2>5
  <2>7. \A x, y : y # r /\ Precedes(q, x, y) => Precedes(p, x, y)
    BY <1>7
  <2>8. \A x, y : Precedes(p, x, y) => Precedes(q, x, y) /\ x \in ToSet(p)
    BY <1>4, <1>7, PrecedesMembers
  <2>9. Innermost(q, n, u)
    BY <1>5, <2>3, <2>6, <2>7, <2>8 DEF Innermost
  <2> QED BY <1>4, <2>2, <2>5, <2>9, InnermostIs
<1> QED BY <1>2, <1>8, <1>9, <1>10, <1>11, <1>12 DEF IInv

LEMMA SendWait ==
    ASSUME IInv, NEW r \in Req, NEW s \in Src,
           pcrdr_send_request_and_wait_response(r, s)
    PROVE  IInv'
<1>1. /\ Dispatched(r, s, "sync") /\ pending' = <<r>> \o pending
      /\ due' = due /\ lost' = lost /\ inbox' = inbox
      /\ stack' = Append(stack, Frame("wait", r))
      /\ slot' = slot /\ outcome' = outcome /\ link' = link
  BY DEF pcrdr_send_request_and_wait_response
<1>2. stack \in Seq(Frames) /\ pending \in Seq(Req) /\ Len(stack) \in Nat
  BY DEF IInv, TypeOK
<1>3. PICK u, v :
         u \in Seq(Frames) /\ u = stack /\ v = stack' /\ v = Append(u, Frame("wait", r))
  BY <1>1, <1>2
<1>4. u \in Seq(Frames) /\ v \in Seq(Frames) /\ Called(u, v, "wait", r)
  <2>1. SameCalls(u, u)
    BY DEF SameCalls, Alike
  <2> QED BY <1>3, <2>1, CallAdds
<1>5. /\ Doing("wait", v) = Doing("wait", u) \cup {r}
      /\ Doing("response", v) = Doing("response", u)
  BY <1>4, CalledDoing
<1>6. /\ mode[r] = "no" /\ mode' = [mode EXCEPT ![r] = "sync"]
      /\ mode' \in [Req -> {"no", "async", "sync"}]
      /\ via' \in [Req -> Src] /\ asked' \in [Src -> Seq(Req)]
      /\ SentKept(mode, mode')
      /\ r \notin ToSet(pending)
      /\ r \notin Doing("wait", stack) /\ r \notin Doing("response", stack)
      /\ AnsweredOnce'
  <2>1. Doing("response", stack') \subseteq Doing("response", stack)
    BY <1>3, <1>5
  <2> QED BY <1>1, <2>1, DispatchedBooks
<1>7. PICK p, q : p \in Seq(Req) /\ p = pending /\ q = pending' /\ Prepended(p, r, q)
  BY <1>1, <1>2 DEF Prepended
<1>8. q \in Seq(Req) /\ ToSet(q) = ToSet(p) \cup {r}
  BY <1>7, PrependedMembers
<1>9. IsInjective(p) => IsInjective(q)
  BY <1>6, <1>7, PrependedMembers
<1>10. \A x, y : Precedes(q, x, y) <=> Precedes(p, x, y) \/ (x = r /\ y \in ToSet(p))
  BY <1>7, PrependedMembers
<1>11. TypeOK'
  BY <1>1, <1>3, <1>4, <1>6, <1>7, <1>8 DEF IInv, TypeOK
<1>12. slot[r] = "null" /\ outcome[r] = "none"
  BY <1>6 DEF IInv, UnsentBlank
<1>13. FramesSound'
  <2>1. WaitersUntold(stack, outcome, outcome')
    BY <1>1 DEF WaitersUntold
  <2>2. mode'[r] = "sync" /\ outcome'[r] = "none"
    BY <1>1, <1>6, <1>12 DEF IInv, TypeOK
  <2>3. stack' \in Seq(Frames) /\ Called(stack, stack', "wait", r)
    BY <1>3, <1>4
  <2> QED BY <1>2, <1>6, <2>1, <2>2, <2>3, FramesCalled DEF IInv
<1>14. UnsentBlank'
  BY <1>1, <1>6, <1>7, <1>8, UnsentKept DEF IInv, TypeOK
<1>15. ContextsLive'
  <2>1. Contexts(p, mode, slot, u)
    BY <1>3, <1>7, ContextsAre DEF IInv
  <2>2. IsInjective(q)
    BY <1>9, <2>1 DEF Contexts
  <2>3. ASSUME NEW x \in Req, mode'[x] = "sync"
        PROVE  x \in ToSet(q) <=> slot'[x] = "null" /\ x \in Doing("wait", v)
    <3>1. CASE x = r
      BY <1>1, <1>5, <1>8, <1>12, <3>1
    <3>2. CASE x # r
      <4>1. mode[x] = "sync"
        BY <1>6, <2>3, <3>2 DEF IInv, TypeOK
      <4>2. x \in ToSet(p) <=> slot[x] = "null" /\ x \in Doing("wait", u)
        BY <2>1, <4>1 DEF Contexts
      <4> QED BY <1>1, <1>5, <1>8, <3>2, <4>2
    <3> QED BY <3>1, <3>2
  <2>4. Contexts(q, mode', slot', v)
    BY <2>2, <2>3 DEF Contexts
  <2> QED BY <1>3, <1>7, <2>4, ContextsAre
<1>16. InnermostFirst'
  <2>1. PICK m, n : m = mode /\ n = mode'
    OBVIOUS
  <2>2. Innermost(p, m, u)
    BY <1>3, <1>7, <2>1, InnermostIs DEF IInv
  <2>3. n[r] = "sync" /\ \A x \in ToSet(p) : n[x] = m[x]
    BY <1>6, <1>7, <2>1 DEF IInv, UnsentBlank, TypeOK, SentKept
  <2>4. /\ Len(u) \in Nat /\ Len(v) = Len(u) + 1
        /\ v[Len(v)].op = "wait" /\ v[Len(v)].req = r
        /\ \A i \in 1 .. Len(u) : v[i].op = u[i].op /\ v[i].req = u[i].req
    BY <1>3, <1>4 DEF Called, Alike
  <2>5. \A i \in 1 .. Len(v) : i # Len(v) => i \in 1 .. Len(u) /\ i < Len(v)
    BY <2>4
  <2>6. \A i \in 1 .. Len(u) : u[i].op = "wait" => u[i].req # r
    BY <1>3, <1>6 DEF Doing
  <2>7. /\ IsInjective(q) /\ \A x : ~ Precedes(q, x, x)
        /\ \A x, y : Precedes(q, x, y) => y \in ToSet(q)
    <3>1. IsInjective(p)
      BY <1>7, ContextsAre DEF IInv, Contexts
    <3> QED BY <1>8, <1>9, <3>1, NoneBeforeItself, PrecedesMembers
  <2>8. \A x : ~ Precedes(q, x, r)
    <3>1. r \notin ToSet(p)
      BY <1>6, <1>7
    <3>2. \A x : ~ Precedes(p, x, r)
      BY <1>7, <3>1, PrecedesMembers
    <3> QED BY <1>10, <3>1, <3>2
  <2>9. \A i, j \in 1 .. Len(v) :
           v[i].op = "wait" /\ v[j].op = "wait" /\ i < j
              /\ v[i].req \in ToSet(q) /\ v[j].req \in ToSet(q)
           => Precedes(q, v[j].req, v[i].req)
    <3> SUFFICES ASSUME NEW i \in 1 .. Len(v), NEW j \in 1 .. Len(v),
                        v[i].op = "wait", v[j].op = "wait", i < j,
                        v[i].req \in ToSet(q), v[j].req \in ToSet(q)
                 PROVE  Precedes(q, v[j].req, v[i].req)
      OBVIOUS
    <3>1. i \in 1 .. Len(u)
      BY <2>4
    <3>2. u[i].op = "wait" /\ u[i].req = v[i].req /\ u[i].req # r
      BY <2>4, <2>6, <3>1
    <3>3. u[i].req \in ToSet(p)
      BY <1>8, <3>2
    <3>4. CASE j = Len(v)
      BY <1>10, <2>4, <3>2, <3>3, <3>4
    <3>5. CASE j # Len(v)
      <4>1. j \in 1 .. Len(u) /\ u[j].op = "wait" /\ u[j].req = v[j].req
        BY <2>4, <2>5, <3>5
      <4>2. u[j].req \in ToSet(p)
        BY <1>8, <2>6, <4>1
      <4>3. Precedes(p, u[j].req, u[i].req)
        BY <2>2, <3>1, <3>2, <3>3, <4>1, <4>2 DEF Innermost
      <4> QED BY <1>10, <3>2, <4>1, <4>3
    <3> QED BY <3>4, <3>5
  <2>10. \A i \in 1 .. Len(v) : v[i].op = "wait" /\ v[i].req \in ToSet(q) =>
            \A x \in ToSet(q) : Precedes(q, x, v[i].req) => n[x] = "sync"
    <3> SUFFICES ASSUME NEW i \in 1 .. Len(v), v[i].op = "wait",
                        v[i].req \in ToSet(q), NEW x \in ToSet(q),
                        Precedes(q, x, v[i].req)
                 PROVE  n[x] = "sync"
      OBVIOUS
    <3>1. i # Len(v)
      BY <2>4, <2>8
    <3>2. i \in 1 .. Len(u) /\ u[i].op = "wait" /\ u[i].req = v[i].req
      BY <2>4, <2>5, <3>1
    <3>3. u[i].req \in ToSet(p)
      BY <1>8, <2>6, <3>2
    <3>4. CASE x = r
      BY <2>3, <3>4
    <3>5. CASE x # r
      <4>1. Precedes(p, x, u[i].req) /\ x \in ToSet(p)
        BY <1>8, <1>10, <3>2, <3>5
      <4>2. m[x] = "sync"
        BY <2>2, <3>2, <3>3, <4>1 DEF Innermost
      <4> QED BY <2>3, <4>1, <4>2
    <3> QED BY <3>4, <3>5
  <2>11. Innermost(q, n, v)
    BY <2>9, <2>10 DEF Innermost
  <2> QED BY <1>3, <1>7, <2>1, <2>11, InnermostIs
<1> QED BY <1>6, <1>11, <1>13, <1>14, <1>15, <1>16 DEF IInv

-----------------------------------------------------------------------------
(* The steps of the calls in progress. *)

\* A step that sends nothing: what is left to show.
LEMMA SendsNothing ==
    ASSUME IInv, TypeOK', mode' = mode,
           NEW R, Fewer(pending, pending', R),
           FramesSound', AnsweredOnce', WaitsWithin(stack, stack'),
           ContextsEnd(R, slot, slot', stack, stack'),
           \A r \in Req : mode[r] = "no" => slot'[r] = slot[r] /\ outcome'[r] = outcome[r]
    PROVE  IInv'
<1>1. pending \in Seq(Req)
  BY DEF IInv, TypeOK
<1>2. UnsentBlank'
  <2>1. SentKept(mode, mode')
    BY DEF SentKept
  <2>2. ToSet(pending') \subseteq ToSet(pending)
    BY DEF Fewer
  <2> QED BY <2>1, <2>2, UnsentKept DEF IInv
<1>3. ContextsLive'
  BY ContextsFewer DEF IInv
<1>4. InnermostFirst'
  BY <1>1, InnermostFewer DEF IInv
<1> QED BY <1>2, <1>3, <1>4 DEF IInv

LEMMA StartsPoll ==
    ASSUME IInv, pcrdr_wait_and_dispatch_message
    PROVE  IInv'
<1>1. /\ stack = <<>> /\ stack' = <<Frame("poll", Other)>>
      /\ pending' = pending /\ due' = due /\ lost' = lost /\ mode' = mode
      /\ via' = via /\ asked' = asked /\ inbox' = inbox /\ slot' = slot
      /\ outcome' = outcome /\ link' = link
  BY DEF pcrdr_wait_and_dispatch_message, list, books
<1>2. PICK u, v :
         u \in Seq(Frames) /\ u = stack /\ v = stack' /\ v = Append(u, Frame("poll", Other))
  <2>1. \A x : <<x>> = Append(<<>>, x)
    OBVIOUS
  <2>2. stack' = Append(stack, Frame("poll", Other))
    BY <1>1, <2>1
  <2>3. stack \in Seq(Frames)
    BY DEF IInv, TypeOK
  <2> QED BY <2>2, <2>3
<1>3. u \in Seq(Frames) /\ v \in Seq(Frames) /\ Called(u, v, "poll", Other)
  <2>1. SameCalls(u, u)
    BY DEF SameCalls, Alike
  <2> QED BY <1>2, <2>1, CallAdds
<1>4. TypeOK'
  BY <1>1, <1>2, <1>3 DEF IInv, TypeOK
<1>5. \A o : o # "poll" => Doing(o, v) = Doing(o, u)
  BY <1>3, CalledDoing
<1>6. FramesSound'
  <2>1. WaitersUntold(stack, outcome, outcome') /\ SentKept(mode, mode')
    BY <1>1 DEF WaitersUntold, SentKept
  <2>2. stack \in Seq(Frames) /\ stack' \in Seq(Frames) /\ Called(stack, stack', "poll", Other)
    BY <1>2, <1>3
  <2> QED BY <2>1, <2>2, FramesCalled DEF IInv
<1>7. AnsweredOnce'
  <2>1. ViaKept(mode, via, mode', via')
    BY <1>1 DEF ViaKept
  <2>2. Doing("response", stack') \subseteq Doing("response", stack)
    BY <1>2, <1>5
  <2> QED BY <1>1, <2>1, <2>2, AnsweredKept DEF IInv
<1>8. WaitsWithin(stack, stack')
  BY <1>2, <1>3, CalledWaits
<1>9. ContextsEnd({}, slot, slot', stack, stack')
  BY <1>1, <1>2, <1>5 DEF ContextsEnd
<1>10. Fewer(pending, pending', {})
  BY <1>1, SameFewer
<1> QED BY <1>1, <1>4, <1>6, <1>7, <1>8, <1>9, <1>10, SendsNothing

\* A message is taken from a source; if it is a response, its handler may start.
LEMMA AnsweredRead ==
    ASSUME IInv, NEW s \in Src, inbox[s] # <<>>,
           inbox' = [inbox EXCEPT ![s] = Tail(@)],
           asked' = asked, mode' = mode, via' = via,
           Doing("response", stack')
              \subseteq Doing("response", stack) \cup ({Head(inbox[s])} \ {Other})
    PROVE  inbox' \in [Src -> Seq(Req \cup {Other})] /\ AnsweredOnce'
<1>1. PICK b, c, h :
         b \in Seq(Req \cup {Other}) /\ b = inbox[s] /\ c = Tail(b) /\ h = Head(b)
  BY DEF IInv, TypeOK
<1>2. b \in Seq(Req \cup {Other}) /\ b # <<>>
  BY <1>1
<1>3. /\ c \in Seq(Req \cup {Other}) /\ Len(c) = Len(b) - 1 /\ h = b[1]
      /\ \A i \in 1 .. Len(c) : c[i] = b[i + 1]
      /\ h \in Req \cup {Other}
  BY <1>1, <1>2, HeadTailProperties
<1>4. h \in ToSet(b)
  BY <1>2, <1>1, TailMembers
<1>5. inbox' = [inbox EXCEPT ![s] = c]
  BY <1>1
<1>6. inbox' \in [Src -> Seq(Req \cup {Other})]
  BY <1>3, <1>5 DEF IInv, TypeOK
<1>7. PICK m, v, H, K :
         m = mode /\ v = via /\ H = Handling /\ K = Handling'
  OBVIOUS
<1>8. K \subseteq H \cup ({h} \ {Other})
  BY <1>1, <1>7, HandlingIs
<1>9. PICK a \in Seq(Req) : a = asked[s]
  BY DEF IInv, TypeOK
<1>10. Answers(s, a, b, m, v, H)
  BY <1>1, <1>7, <1>9 DEF IInv, AnsweredOnce
<1>11. Answers(s, a, c, m, v, K)
  BY <1>2, <1>3, <1>8, <1>10, AnswersRead
<1>12. h # Other => v[h] = s
  BY <1>4, <1>10 DEF Answers
<1>13. ASSUME NEW t \in Src
       PROVE  Answers(t, asked'[t], inbox'[t], m, v, K)
  <2>1. CASE t = s
    BY <1>5, <1>9, <1>11, <2>1 DEF IInv, TypeOK
  <2>2. CASE t # s
    <3>1. PICK d \in Seq(Req), e \in Seq(Req \cup {Other}) :
             d = asked[t] /\ e = inbox[t] /\ d = asked'[t] /\ e = inbox'[t]
      BY <1>5, <2>2 DEF IInv, TypeOK
    <3>2. Answers(t, d, e, m, v, H)
      BY <1>7, <3>1 DEF IInv, AnsweredOnce
    <3>3. h # Other => h \notin ToSet(d) /\ h \notin ToSet(e)
      BY <1>12, <2>2, <3>2 DEF Answers
    <3>4. \A r \in K : r \in H \/ (r \notin ToSet(d) /\ r \notin ToSet(e))
      BY <1>8, <3>3
    <3>5. ViaKept(m, v, m, v)
      BY DEF ViaKept
    <3>6. Answers(t, d, e, m, v, K)
      BY <3>2, <3>4, <3>5, AnswersKept
    <3> QED BY <3>1, <3>6
  <2> QED BY <2>1, <2>2
<1>14. AnsweredOnce'
  BY <1>7, <1>13 DEF AnsweredOnce
<1> QED BY <1>6, <1>14

LEMMA Dispatches ==
    ASSUME IInv, NEW s \in Src, NEW p \in Points, stack # <<>>,
           Top.op \in {"wait", "poll"}, dispatch_message(s, p),
           UNCHANGED <<books, link>>
    PROVE  IInv'
<1>1. /\ inbox[s] # <<>> /\ inbox' = [inbox EXCEPT ![s] = Tail(@)]
      /\ mode' = mode /\ via' = via /\ asked' = asked /\ link' = link
  BY DEF dispatch_message, books
<1>2. /\ stack \in Seq(Frames) /\ pending \in Seq(Req) /\ mode \in [Req -> {"no", "async", "sync"}]
      /\ slot \in [Req -> {"null", "msg", "invalid"}]
      /\ outcome \in [Req -> Endings \cup {"none"}]
      /\ due \subseteq Req /\ lost \subseteq Req /\ inbox[s] \in Seq(Req \cup {Other})
  BY DEF IInv, TypeOK
<1>3. PICK u \in Seq(Frames), a \in Seq(Frames) :
         u = stack /\ a = At(p) /\ SameCalls(u, a)
  BY <1>2, AtCalls
<1>4. PICK h \in Req \cup {Other} : h = Head(inbox[s])
  BY <1>1, <1>2, HeadTailProperties
<1>5. h # Other => h \in ToSet(inbox[s])
  BY <1>1, <1>2, <1>4, TailMembers
<1>6. SentKept(mode, mode') /\ ViaKept(mode, via, mode', via')
  BY <1>1 DEF SentKept, ViaKept
<1>7. CASE h = Other /\ stack' = Append(At(p), Frame("handler", Other))
           /\ UNCHANGED <<list, slot, outcome>>
  <2>1. PICK v : v = stack' /\ v = Append(a, Frame("handler", Other))
    BY <1>3, <1>7
  <2>2. v \in Seq(Frames) /\ Called(u, v, "handler", Other)
    BY <1>3, <2>1, CallAdds
  <2>3. \A o : o # "handler" => Doing(o, v) = Doing(o, u)
    BY <2>2, CalledDoing
  <2>4. /\ pending' = pending /\ due' = due /\ lost' = lost
        /\ slot' = slot /\ outcome' = outcome
    BY <1>7 DEF list
  <2>5. inbox' \in [Src -> Seq(Req \cup {Other})] /\ AnsweredOnce'
    <3>1. Doing("response", stack')
             \subseteq Doing("response", stack) \cup ({Head(inbox[s])} \ {Other})
      BY <1>3, <2>1, <2>3
    <3> QED BY <1>1, <3>1, AnsweredRead
  <2>6. TypeOK'
    BY <1>1, <2>1, <2>2, <2>4, <2>5 DEF IInv, TypeOK
  <2>7. FramesSound'
    <3>1. WaitersUntold(stack, outcome, outcome')
      BY <2>4 DEF WaitersUntold
    <3>2. stack' \in Seq(Frames) /\ Called(stack, stack', "handler", Other)
      BY <1>3, <2>1, <2>2
    <3> QED BY <1>2, <1>6, <3>1, <3>2, FramesCalled DEF IInv
  <2>8. WaitsWithin(stack, stack')
    BY <1>3, <2>1, <2>2, CalledWaits
  <2>9. ContextsEnd({}, slot, slot', stack, stack')
    BY <1>3, <2>1, <2>3, <2>4 DEF ContextsEnd
  <2>10. Fewer(pending, pending', {})
    BY <2>4, SameFewer
  <2> QED BY <1>1, <2>4, <2>5, <2>6, <2>7, <2>8, <2>9, <2>10, SendsNothing
<1>8. ASSUME h # Other, stack' = At(p), outcome' = outcome,
             NEW R, Fewer(pending, pending', R), pending' \in Seq(Req),
             R \subseteq {h}, due' \subseteq due, lost' \subseteq Req,
             slot' \in [Req -> {"null", "msg", "invalid"}],
             \A r \in Req : r # h => slot'[r] = slot[r],
             (slot'[h] = slot[h] /\ R = {}) \/ (slot'[h] = "msg" /\ R = {h})
      PROVE  IInv'
  <2>1. mode[h] # "no" /\ h \in Req
    BY <1>5, <1>8 DEF IInv, AnsweredOnce, Answers
  <2>2. \A o : Doing(o, stack') = Doing(o, stack)
    BY <1>3, <1>8, SameDoing
  <2>3. stack' \in Seq(Frames) /\ Shrunk(stack, stack')
    BY <1>3, <1>8, ShrunkCalls
  <2>4. inbox' \in [Src -> Seq(Req \cup {Other})] /\ AnsweredOnce'
    <3>1. Doing("response", stack')
             \subseteq Doing("response", stack) \cup ({Head(inbox[s])} \ {Other})
      BY <2>2
    <3> QED BY <1>1, <3>1, AnsweredRead
  <2>5. TypeOK'
    BY <1>1, <1>8, <2>3, <2>4 DEF IInv, TypeOK
  <2>6. FramesSound'
    <3>1. WaitersUntold(stack', outcome, outcome')
      BY <1>8 DEF WaitersUntold
    <3>2. Len(stack) \in Nat
      BY <1>2
    <3> QED BY <1>6, <2>3, <3>1, <3>2, FramesShrunk DEF IInv
  <2>7. WaitsWithin(stack, stack')
    BY <1>2, <2>3, ShrunkWaits
  <2>8. ContextsEnd(R, slot, slot', stack, stack')
    BY <1>8, <2>1, <2>2 DEF ContextsEnd
  <2>9. \A r \in Req : mode[r] = "no" => slot'[r] = slot[r] /\ outcome'[r] = outcome[r]
    BY <1>8, <2>1
  <2> QED BY <1>1, <1>8, <2>4, <2>5, <2>6, <2>7, <2>8, <2>9, SendsNothing
<1>9. CASE h # Other /\ ~ Matches(h) /\ ThrowAway(h) /\ stack' = At(p)
           /\ UNCHANGED <<slot, outcome>>
  <2>1. /\ pending' = pending /\ due' = due /\ slot' = slot /\ outcome' = outcome
        /\ lost' = lost \cup ({h} \cap ToSet(pending))
    BY <1>9 DEF ThrowAway
  <2>2. Fewer(pending, pending', {}) /\ pending' \in Seq(Req) /\ lost' \subseteq Req
    BY <1>2, <1>9, <2>1, SameFewer
  <2>3. {} \subseteq {h} /\ {} = {}
    OBVIOUS
  <2> QED BY <1>2, <1>8, <1>9, <2>1, <2>2, <2>3
<1>10. CASE h # Other /\ Matches(h) /\ mode[h] = "sync" /\ Unlink({h})
            /\ slot' = [slot EXCEPT ![h] = "msg"] /\ stack' = At(p) /\ outcome' = outcome
  <2>1. /\ pending' \in Seq(Req) /\ Fewer(pending, pending', {h})
        /\ due' = due \ {h} /\ lost' = lost \ {h}
    BY <1>2, <1>10, UnlinkFewer
  <2>2. /\ slot' \in [Req -> {"null", "msg", "invalid"}]
        /\ \A r \in Req : r # h => slot'[r] = slot[r]
        /\ slot'[h] = "msg"
    BY <1>2, <1>10
  <2>3. {h} \subseteq {h} /\ {h} = {h} /\ due' \subseteq due /\ lost' \subseteq Req
    BY <1>2, <2>1
  <2> QED BY <1>8, <1>10, <2>1, <2>2, <2>3
<1>11. CASE h # Other /\ Matches(h) /\ mode[h] = "async"
            /\ outcome' = [outcome EXCEPT ![h] = "result"]
            /\ stack' = Append(At(p), Frame("response", h)) /\ UNCHANGED <<list, slot>>
  <2>1. PICK v : v = stack' /\ v = Append(a, Frame("response", h))
    BY <1>3, <1>11
  <2>2. v \in Seq(Frames) /\ Called(u, v, "response", h)
    BY <1>3, <2>1, CallAdds
  <2>3. /\ Doing("wait", v) = Doing("wait", u)
        /\ Doing("response", v) = Doing("response", u) \cup {h}
    BY <2>2, CalledDoing
  <2>4. /\ pending' = pending /\ due' = due /\ lost' = lost /\ slot' = slot
    BY <1>11 DEF list
  <2>5. h \in Req /\ h \notin Doing("response", stack)
    BY <1>5, <1>11, HandlingIs DEF IInv, AnsweredOnce, Answers
  <2>6. h \notin Doing("wait", stack)
    BY <1>11 DEF IInv, FramesSound, Doing
  <2>7. inbox' \in [Src -> Seq(Req \cup {Other})] /\ AnsweredOnce'
    <3>1. Doing("response", stack')
             \subseteq Doing("response", stack) \cup ({Head(inbox[s])} \ {Other})
      BY <1>3, <1>4, <1>11, <2>1, <2>3
    <3> QED BY <1>1, <3>1, AnsweredRead
  <2>8. outcome' \in [Req -> Endings \cup {"none"}]
    BY <1>2, <1>11 DEF Endings
  <2>9. TypeOK'
    BY <1>1, <2>1, <2>2, <2>4, <2>7, <2>8 DEF IInv, TypeOK
  <2>10. FramesSound'
    <3>1. WaitersUntold(stack, outcome, outcome')
      <4>1. \A i \in 1 .. Len(stack) : stack[i].op = "wait" =>
               stack[i].req # h /\ stack[i].req \in Req
        BY <2>6 DEF IInv, FramesSound, Serves, Doing
      <4> QED BY <1>2, <1>11, <4>1 DEF WaitersUntold
    <3>2. stack' \in Seq(Frames) /\ Called(stack, stack', "response", h)
      BY <1>3, <2>1, <2>2
    <3>3. mode'[h] = "async"
      BY <1>1, <1>11
    <3> QED BY <1>2, <1>6, <2>5, <2>6, <3>1, <3>2, <3>3, FramesCalled DEF IInv
  <2>11. WaitsWithin(stack, stack')
    BY <1>3, <2>1, <2>2, CalledWaits
  <2>12. ContextsEnd({}, slot, slot', stack, stack')
    BY <1>3, <2>1, <2>3, <2>4 DEF ContextsEnd
  <2>13. Fewer(pending, pending', {})
    BY <2>4, SameFewer
  <2>14. \A r \in Req : mode[r] = "no" => slot'[r] = slot[r] /\ outcome'[r] = outcome[r]
    BY <1>2, <1>11, <2>4
  <2> QED BY <1>1, <2>7, <2>9, <2>10, <2>11, <2>12, <2>13, <2>14, SendsNothing
<1>12. \/ h = Other /\ stack' = Append(At(p), Frame("handler", Other))
             /\ UNCHANGED <<list, slot, outcome>>
       \/ h # Other /\ handle_response_message(h, p)
  BY <1>4 DEF dispatch_message
<1> QED BY <1>7, <1>9, <1>10, <1>11, <1>12 DEF handle_response_message

\* A step that begins no call, and reads and sends nothing.
LEMMA BeginsNothing ==
    ASSUME IInv, TypeOK', mode' = mode, via' = via, asked' = asked, inbox' = inbox,
           Shrunk(stack, stack'), WaitersUntold(stack', outcome, outcome'),
           NEW R, Fewer(pending, pending', R),
           ContextsEnd(R, slot, slot', stack, stack'),
           \A r \in Req : mode[r] = "no" => slot'[r] = slot[r] /\ outcome'[r] = outcome[r]
    PROVE  IInv'
<1>1. stack \in Seq(Frames) /\ stack' \in Seq(Frames) /\ Len(stack) \in Nat
  BY DEF IInv, TypeOK
<1>2. SentKept(mode, mode') /\ ViaKept(mode, via, mode', via')
  BY DEF SentKept, ViaKept
<1>3. FramesSound'
  BY <1>1, <1>2, FramesShrunk DEF IInv
<1>4. AnsweredOnce'
  <2>1. Doing("response", stack') \subseteq Doing("response", stack)
    BY <1>1, ShrunkDoing
  <2> QED BY <1>2, <2>1, AnsweredKept DEF IInv
<1>5. WaitsWithin(stack, stack')
  BY <1>1, ShrunkWaits
<1> QED BY <1>3, <1>4, <1>5, SendsNothing

LEMMA MovesOn ==
    ASSUME IInv, stack # <<>>, NEW p \in Points, stack' = At(p),
           UNCHANGED <<list, books, inbox, slot, outcome, link>>
    PROVE  IInv'
<1>1. /\ pending' = pending /\ due' = due /\ lost' = lost /\ mode' = mode
      /\ via' = via /\ asked' = asked /\ inbox' = inbox /\ slot' = slot
      /\ outcome' = outcome /\ link' = link
  BY DEF list, books
<1>2. stack \in Seq(Frames)
  BY DEF IInv, TypeOK
<1>3. stack' \in Seq(Frames) /\ SameCalls(stack, stack')
  BY <1>2, AtCalls
<1>4. TypeOK'
  BY <1>1, <1>3 DEF IInv, TypeOK
<1>5. Shrunk(stack, stack')
  BY <1>2, <1>3, ShrunkCalls
<1>6. Doing("wait", stack') = Doing("wait", stack)
  BY <1>2, <1>3, SameDoing
<1>7. ContextsEnd({}, slot, slot', stack, stack')
  BY <1>1, <1>6 DEF ContextsEnd
<1>8. Fewer(pending, pending', {})
  BY <1>1, SameFewer
<1>9. WaitersUntold(stack', outcome, outcome')
  BY <1>1 DEF WaitersUntold
<1> QED BY <1>1, <1>4, <1>5, <1>7, <1>8, <1>9, BeginsNothing

LEMMA Looks ==
    ASSUME IInv, NEW here \in Points, NEW next \in Points, Look(here, next)
    PROVE  IInv'
<1>1. CASE dispatch_message("extra", next)
  BY <1>1, Dispatches DEF Look, Src
<1>2. CASE inbox["extra"] = <<>> /\ stack' = At(next)
            /\ UNCHANGED <<list, inbox, slot, outcome>>
  BY <1>2, MovesOn DEF Look
<1> QED BY <1>1, <1>2 DEF Look

\* The wait on top of the stack ends; no other call waits for its request.
LEMMA WaitReturns ==
    ASSUME IInv, stack # <<>>, Top.op = "wait", stack' = Pop
    PROVE  /\ Top.req \in Req /\ mode[Top.req] = "sync"
           /\ Top.req \in Doing("wait", stack)
           /\ Doing("wait", stack') = Doing("wait", stack) \ {Top.req}
           /\ stack' \in Seq(Frames) /\ Shrunk(stack, stack')
<1>1. stack \in Seq(Frames)
  BY DEF IInv, TypeOK
<1>2. /\ stack' \in Seq(Frames) /\ Returned(stack, stack')
      /\ Top = stack[Len(stack)] /\ Len(stack) \in Nat /\ Len(stack) \in 1 .. Len(stack)
  BY <1>1, PopCalls
<1>3. Shrunk(stack, stack')
  BY <1>1, <1>2, ShrunkCalls
<1>4. PICK w : w = Top.req /\ w = stack[Len(stack)].req
  BY <1>2
<1>5. stack[Len(stack)].op = "wait"
  BY <1>2
<1>6. w \in Req /\ mode[w] = "sync"
  BY <1>2, <1>4, <1>5 DEF IInv, FramesSound, Serves
<1>7. Doing("wait", stack) = Doing("wait", stack') \cup {w}
  BY <1>1, <1>2, <1>4, <1>5, ReturnedDoing
<1>8. w \notin Doing("wait", stack')
  <2> SUFFICES ASSUME w \in Doing("wait", stack') PROVE FALSE
    OBVIOUS
  <2>1. PICK i \in 1 .. Len(stack') : stack'[i].op = "wait" /\ stack'[i].req = w
    BY DEF Doing
  <2>2. /\ i \in 1 .. Len(stack) /\ i # Len(stack)
        /\ stack[i].op = "wait" /\ stack[i].req = w
    BY <1>2, <2>1 DEF Returned, Alike
  <2>3. i = Len(stack)
    BY <1>2, <1>4, <1>5, <2>2 DEF IInv, FramesSound, Serves
  <2> QED BY <2>2, <2>3
<1> QED BY <1>2, <1>3, <1>4, <1>6, <1>7, <1>8

LEMMA Reads ==
    ASSUME IInv, Read
    PROVE  IInv'
<1>1. stack # <<>> /\ Top.op \in {"wait", "poll"} /\ UNCHANGED <<books, link>>
  BY DEF Read
<1>2. CASE dispatch_message("conn", "again")
  BY <1>1, <1>2, Dispatches DEF Src, Points
<1>3. CASE stack' = At("check") /\ UNCHANGED <<list, inbox, slot, outcome>>
  BY <1>1, <1>3, MovesOn DEF Points
<1>4. CASE /\ Top.op = "wait" /\ GiveUp(Top.req)
           /\ outcome' = [outcome EXCEPT ![Top.req] = "error"]
           /\ stack' = Pop /\ UNCHANGED <<inbox, slot>>
  <2>1. PICK w : w = Top.req
    OBVIOUS
  <2>2. /\ w \in Req /\ mode[w] = "sync" /\ w \in Doing("wait", stack)
        /\ Doing("wait", stack') = Doing("wait", stack) \ {w}
        /\ stack' \in Seq(Frames) /\ Shrunk(stack, stack')
    BY <1>1, <1>4, <2>1, WaitReturns
  <2>3. /\ mode' = mode /\ via' = via /\ asked' = asked /\ inbox' = inbox
        /\ slot' = slot /\ link' = link /\ outcome' = [outcome EXCEPT ![w] = "error"]
    BY <1>1, <1>4, <2>1 DEF books
  <2>4. PICK R : /\ R = IF slot[w] = "null" THEN {w} ELSE {}
                 /\ pending' \in Seq(Req) /\ Fewer(pending, pending', R)
                 /\ due' \subseteq Req /\ lost' \subseteq Req
    <3>1. /\ pending \in Seq(Req) /\ due \subseteq Req /\ lost \subseteq Req
      BY DEF IInv, TypeOK
    <3>2. CASE slot[w] = "null"
      <4>1. Unlink({w})
        BY <1>4, <2>1, <3>2 DEF GiveUp
      <4> QED BY <3>1, <3>2, <4>1, UnlinkFewer
    <3>3. CASE slot[w] # "null"
      <4>1. pending' = pending /\ due' = due /\ lost' = lost
        BY <1>4, <2>1, <3>3 DEF GiveUp, list
      <4> QED BY <3>1, <3>3, <4>1, SameFewer
    <3> QED BY <3>2, <3>3
  <2>5. TypeOK'
    BY <2>2, <2>3, <2>4 DEF IInv, TypeOK, Endings
  <2>6. ContextsEnd(R, slot, slot', stack, stack')
    BY <2>2, <2>3, <2>4 DEF ContextsEnd
  <2>7. WaitersUntold(stack', outcome, outcome')
    <3>1. \A i \in 1 .. Len(stack') : stack'[i].op = "wait" => stack'[i].req # w
      BY <2>2 DEF Doing
    <3>2. \A i \in 1 .. Len(stack') : stack'[i].op = "wait" => stack'[i].req \in Req
      <4>1. \A i \in 1 .. Len(stack') :
               /\ i \in 1 .. Len(stack)
               /\ stack'[i].op = stack[i].op /\ stack'[i].req = stack[i].req
        BY <2>2, ShrunkWaits DEF IInv, TypeOK, Shrunk, Alike
      <4> QED BY <4>1 DEF IInv, FramesSound, Serves
    <3> QED BY <2>3, <3>1, <3>2 DEF IInv, TypeOK, WaitersUntold
  <2>8. \A r \in Req : mode[r] = "no" => slot'[r] = slot[r] /\ outcome'[r] = outcome[r]
    BY <2>2, <2>3 DEF IInv, TypeOK
  <2> QED BY <2>2, <2>3, <2>4, <2>5, <2>6, <2>7, <2>8, BeginsNothing
<1> QED BY <1>2, <1>3, <1>4 DEF Read

LEMMA ChecksTimeouts ==
    ASSUME IInv, check_timeout_requests
    PROVE  IInv'
<1> DEFINE told == {r \in Overdue : mode[r] = "async"}
           over == Top.op = "wait" /\ slot'[Top.req] # "null"
<1>1. /\ stack # <<>> /\ Top.op \in {"wait", "poll"} /\ Unlink(Overdue)
      /\ slot' = SlotsAfter /\ UNCHANGED <<books, inbox, link>>
      /\ outcome' = [r \in Req |->
            CASE r \in told -> "timeout"
              [] over /\ r = Top.req -> IF slot'[r] = "msg" THEN "result" ELSE "timeout"
              [] OTHER -> outcome[r]]
      /\ stack' = IF over \/ Top.op = "poll" THEN Pop ELSE At("source")
  BY DEF check_timeout_requests
<1>2. PICK t : t = told
  OBVIOUS
<1>3. PICK w : w = Top.req
  OBVIOUS
<1>4. PICK R : R = Overdue
  OBVIOUS
<1>5. /\ R \subseteq ToSet(pending) /\ R \subseteq due
      /\ \A r : r \in t <=> r \in R /\ mode[r] = "async"
  BY <1>2, <1>4 DEF Overdue
<1>6. over <=> Top.op = "wait" /\ slot'[w] # "null"
  BY <1>3
<1>7. /\ \A r \in Req : r \in t => outcome'[r] = "timeout"
      /\ \A r \in Req : r \notin t /\ ~ (over /\ r = w) => outcome'[r] = outcome[r]
      /\ outcome' \in [Req -> Endings \cup {"none"}]
  <2> HIDE DEF told, over
  <2>1. outcome' = [r \in Req |->
            CASE r \in t -> "timeout"
              [] over /\ r = w -> IF slot'[r] = "msg" THEN "result" ELSE "timeout"
              [] OTHER -> outcome[r]]
    BY <1>1, <1>2, <1>3
  <2>2. \A r \in Req : r \in t => outcome'[r] = "timeout"
    <3> SUFFICES ASSUME NEW r \in Req, r \in t PROVE outcome'[r] = "timeout"
      OBVIOUS
    <3>1. CASE ~ (over /\ r = w)
      BY <2>1, <3>1
    <3>2. CASE over /\ r = w
      <4>1. FALSE
        <5>1. mode[r] = "async" /\ Top.op = "wait"
          BY <1>5, <1>6, <3>2
        <5>2. mode[r] = "sync"
          <6>1. stack[Len(stack)] = Top /\ Len(stack) \in 1 .. Len(stack)
            BY <1>1, PopCalls DEF IInv, TypeOK
          <6> QED BY <1>3, <3>2, <5>1, <6>1 DEF IInv, FramesSound
        <5> QED BY <5>1, <5>2
      <4> QED BY <4>1
    <3> QED BY <3>1, <3>2
  <2>3. \A r \in Req : r \notin t /\ ~ (over /\ r = w) => outcome'[r] = outcome[r]
    BY <2>1
  <2>4. \A r \in Req : r \notin t /\ over /\ r = w => outcome'[r] \in {"result", "timeout"}
    BY <2>1
  <2>5. outcome' = [r \in Req |-> outcome'[r]]
    BY <2>1
  <2>6. \A r \in Req : outcome'[r] \in Endings \cup {"none"}
    BY <2>2, <2>3, <2>4 DEF IInv, TypeOK, Endings
  <2> QED BY <2>2, <2>3, <2>5, <2>6
<1>8. /\ pending \in Seq(Req) /\ due \subseteq Req /\ lost \subseteq Req
      /\ stack \in Seq(Frames) /\ Len(stack) \in Nat
  BY DEF IInv, TypeOK
<1>9. /\ pending' \in Seq(Req) /\ Fewer(pending, pending', R)
      /\ due' = due \ R /\ lost' = lost \ R
  <2>1. Unlink(R)
    BY <1>1, <1>4
  <2> QED BY <1>8, <2>1, UnlinkFewer
<1>10. /\ slot' \in [Req -> {"null", "msg", "invalid"}]
       /\ \A r \in Req : r \in R /\ mode[r] = "sync" => slot'[r] = "invalid"
       /\ \A r \in Req : ~ (r \in R /\ mode[r] = "sync") => slot'[r] = slot[r]
  BY <1>1, <1>4 DEF SlotsAfter, IInv, TypeOK
<1>11. /\ mode' = mode /\ via' = via /\ asked' = asked /\ inbox' = inbox /\ link' = link
  BY <1>1 DEF books
<1>12. /\ stack' \in Seq(Frames) /\ Shrunk(stack, stack')
       /\ over => /\ w \in Req /\ mode[w] = "sync"
                  /\ Doing("wait", stack') = Doing("wait", stack) \ {w}
       /\ ~ over => Doing("wait", stack') = Doing("wait", stack)
  <2>1. CASE over
    <3>1. stack' = Pop /\ Top.op = "wait"
      BY <1>1, <2>1
    <3> HIDE DEF over, told
    <3> QED BY <1>1, <1>3, <2>1, <3>1, WaitReturns
  <2>2. CASE ~ over /\ Top.op = "poll"
    <3>1. stack' = Pop
      BY <1>1, <2>2
    <3>2. /\ stack' \in Seq(Frames) /\ Returned(stack, stack') /\ Top = stack[Len(stack)]
      BY <1>1, <1>8, <3>1, PopCalls
    <3>3. Shrunk(stack, stack')
      BY <1>8, <3>2, ShrunkCalls
    <3>4. "wait" # stack[Len(stack)].op
      BY <2>2, <3>2
    <3>5. Doing("wait", stack') = Doing("wait", stack)
      BY <1>1, <1>8, <3>2, <3>4, ReturnedDoing
    <3> QED BY <2>2, <3>2, <3>3, <3>5
  <2>3. CASE ~ over /\ Top.op # "poll"
    <3>1. stack' = At("source")
      BY <1>1, <2>3
    <3>2. stack' \in Seq(Frames) /\ SameCalls(stack, stack')
      BY <1>1, <1>8, <3>1, AtCalls DEF Points
    <3> QED BY <1>8, <2>3, <3>2, ShrunkCalls, SameDoing
  <2> QED BY <2>1, <2>2, <2>3
<1>13. over => slot'[w] # "null"
  BY <1>6
<1>14. ~ over => Top.op # "wait" \/ slot'[w] = "null"
  BY <1>6
<1> HIDE DEF over, told
<1>15. TypeOK'
  BY <1>7, <1>8, <1>9, <1>10, <1>11, <1>12 DEF IInv, TypeOK
<1>16. ContextsEnd(R, slot, slot', stack, stack')
  <2> SUFFICES ASSUME NEW r \in Req, mode[r] = "sync"
               PROVE  slot'[r] = "null" /\ r \in Doing("wait", stack')
                        <=> slot[r] = "null" /\ r \in Doing("wait", stack) /\ r \notin R
    BY DEF ContextsEnd
  <2>1. CASE r \in R
    BY <1>10, <2>1
  <2>2. CASE r \notin R
    BY <1>10, <1>12, <1>13, <2>2
  <2> QED BY <2>1, <2>2
<1>17. WaitersUntold(stack', outcome, outcome')
  <2> SUFFICES ASSUME NEW i \in 1 .. Len(stack'), stack'[i].op = "wait"
               PROVE  outcome'[stack'[i].req] = outcome[stack'[i].req]
    BY DEF WaitersUntold
  <2>1. PICK r : r = stack'[i].req
    OBVIOUS
  <2>2. r \in Doing("wait", stack')
    BY <2>1 DEF Doing
  <2>3. r \in Doing("wait", stack)
    BY <1>12, <2>2
  <2>4. r \in Req /\ mode[r] = "sync"
    BY <2>3 DEF IInv, FramesSound, Serves, Doing
  <2>5. ~ (over /\ r = w)
    BY <1>12, <2>2
  <2> QED BY <1>5, <1>7, <2>1, <2>4, <2>5
<1>18. \A r \in Req : mode[r] = "no" => slot'[r] = slot[r] /\ outcome'[r] = outcome[r]
  BY <1>5, <1>7, <1>10, <1>12
<1> QED BY <1>9, <1>11, <1>12, <1>15, <1>16, <1>17, <1>18, BeginsNothing

LEMMA Returns ==
    ASSUME IInv, HandlerReturns
    PROVE  IInv'
<1>1. /\ stack # <<>> /\ Top.op \in {"handler", "response"} /\ stack' = Pop
      /\ Unlink(IF Top.op = "response" THEN {Top.req} ELSE {})
      /\ mode' = mode /\ via' = via /\ asked' = asked /\ inbox' = inbox
      /\ slot' = slot /\ outcome' = outcome /\ link' = link
  BY DEF HandlerReturns, books
<1>2. /\ stack \in Seq(Frames) /\ pending \in Seq(Req)
      /\ due \subseteq Req /\ lost \subseteq Req
  BY DEF IInv, TypeOK
<1>3. PICK R : R = IF Top.op = "response" THEN {Top.req} ELSE {}
  OBVIOUS
<1>4. /\ pending' \in Seq(Req) /\ Fewer(pending, pending', R)
      /\ due' = due \ R /\ lost' = lost \ R
  <2>1. Unlink(R)
    BY <1>1, <1>3
  <2> QED BY <1>2, <2>1, UnlinkFewer
<1>5. /\ stack' \in Seq(Frames) /\ Returned(stack, stack') /\ Top = stack[Len(stack)]
      /\ Len(stack) \in 1 .. Len(stack)
  BY <1>1, <1>2, PopCalls
<1>6. Shrunk(stack, stack')
  BY <1>2, <1>5, ShrunkCalls
<1>7. Doing("wait", stack') = Doing("wait", stack)
  <2>1. "wait" # stack[Len(stack)].op
    BY <1>1, <1>5
  <2> QED BY <1>1, <1>2, <1>5, <2>1, ReturnedDoing
<1>8. \A r \in R : mode[r] = "async"
  BY <1>3, <1>5 DEF IInv, FramesSound
<1>9. TypeOK'
  BY <1>1, <1>2, <1>4, <1>5 DEF IInv, TypeOK
<1>10. ContextsEnd(R, slot, slot', stack, stack')
  BY <1>1, <1>7, <1>8 DEF ContextsEnd
<1>11. WaitersUntold(stack', outcome, outcome')
  BY <1>1 DEF WaitersUntold
<1> QED BY <1>1, <1>4, <1>6, <1>9, <1>10, <1>11, BeginsNothing

LEMMA Disconnects ==
    ASSUME IInv, pcrdr_disconnect
    PROVE  IInv'
<1>1. /\ stack = <<>> /\ stack' = stack /\ link' = "freed"
      /\ Unlink(ToSet(pending))
      /\ slot' = [r \in Req |-> IF r \in ToSet(pending) /\ mode[r] = "sync"
                                THEN "invalid" ELSE slot[r]]
      /\ outcome' = [r \in Req |-> IF r \in ToSet(pending) /\ mode[r] = "async"
                                   THEN "cancelled" ELSE outcome[r]]
      /\ inbox' = [s \in Src |-> <<>>]
      /\ mode' = mode /\ via' = via /\ asked' = asked
  BY DEF pcrdr_disconnect, books
<1>2. /\ stack \in Seq(Frames) /\ pending \in Seq(Req)
      /\ due \subseteq Req /\ lost \subseteq Req /\ Len(stack) = 0
  BY <1>1 DEF IInv, TypeOK
<1>3. PICK R : R = ToSet(pending)
  OBVIOUS
<1>4. /\ pending' \in Seq(Req) /\ Fewer(pending, pending', R)
      /\ due' = due \ R /\ lost' = lost \ R
  <2>1. Unlink(R)
    BY <1>1, <1>3
  <2> QED BY <1>2, <2>1, UnlinkFewer
<1>5. TypeOK'
  <2>1. inbox' \in [Src -> Seq(Req \cup {Other})]
    <3>1. <<>> \in Seq(Req \cup {Other})
      OBVIOUS
    <3> QED BY <1>1, <3>1
  <2>2. outcome' \in [Req -> Endings \cup {"none"}]
    BY <1>1 DEF IInv, TypeOK, Endings
  <2>3. slot' \in [Req -> {"null", "msg", "invalid"}]
    BY <1>1 DEF IInv, TypeOK
  <2> QED BY <1>1, <1>2, <1>4, <2>1, <2>2, <2>3 DEF IInv, TypeOK
<1>6. FramesSound' /\ WaitsWithin(stack, stack')
  BY <1>1, <1>2 DEF FramesSound, WaitsWithin
<1>7. Doing("wait", stack) = {} /\ Doing("response", stack') = {}
  BY <1>1, <1>2 DEF Doing
<1>8. AnsweredOnce'
  <2> SUFFICES ASSUME NEW s \in Src
               PROVE  Answers(s, asked'[s], inbox'[s], mode', via', Handling')
    BY DEF AnsweredOnce
  <2>1. PICK a \in Seq(Req) : a = asked[s] /\ a = asked'[s]
    BY <1>1 DEF IInv, TypeOK
  <2>2. inbox'[s] = <<>> /\ Len(<<>>) = 0 /\ ToSet(<<>>) = {}
    BY <1>1, EmptyMembers
  <2>3. Handling' = {}
    BY <1>7, HandlingIs
  <2>4. Answers(s, a, inbox[s], mode, via, Handling)
    BY <2>1 DEF IInv, AnsweredOnce
  <2>5. Answers(s, a, <<>>, mode, via, {})
    BY <2>2, <2>4 DEF Answers
  <2> QED BY <1>1, <2>1, <2>2, <2>3, <2>5
<1>9. ContextsEnd(R, slot, slot', stack, stack')
  BY <1>1, <1>7 DEF ContextsEnd
<1>10. \A r \in Req : mode[r] = "no" => slot'[r] = slot[r] /\ outcome'[r] = outcome[r]
  BY <1>1
<1> QED BY <1>1, <1>4, <1>5, <1>6, <1>8, <1>9, <1>10, SendsNothing

\* The peer sends something; the calls in progress do not notice.
LEMMA PeerSends ==
    ASSUME IInv, NEW s \in Src, NEW x \in Req \cup {Other}, NEW d \in Seq(Req),
           Appended(inbox[s], x, inbox'[s]), inbox' = [inbox EXCEPT ![s] = inbox'[s]],
           asked' = [asked EXCEPT ![s] = d],
           ToSet(d) \subseteq ToSet(asked[s]), IsInjective(d),
           x # Other => x \in ToSet(asked[s]) /\ x \notin ToSet(d),
           UNCHANGED <<list, mode, via, stack, slot, outcome, link>>
    PROVE  IInv'
<1>1. /\ pending' = pending /\ due' = due /\ lost' = lost /\ mode' = mode
      /\ via' = via /\ stack' = stack /\ slot' = slot
      /\ outcome' = outcome /\ link' = link
  BY DEF list
<1>2. PICK a, b, c :
         /\ a \in Seq(Req) /\ b \in Seq(Req \cup {Other})
         /\ a = asked[s] /\ b = inbox[s] /\ c = inbox'[s] /\ Appended(b, x, c)
  BY DEF IInv, TypeOK
<1>3. PICK m, v, H : m = mode /\ v = via /\ H = Handling /\ H = Handling'
  BY <1>1, HandlingIs
<1>4. Answers(s, a, b, m, v, H)
  BY <1>2, <1>3 DEF IInv, AnsweredOnce
<1>5. x = Other => x \notin ToSet(d)
  BY Members, RequestsAssumption
<1>6. x # Other => x \in ToSet(a) /\ x \notin ToSet(d)
  BY <1>2
<1>7. ToSet(d) \subseteq ToSet(a)
  BY <1>2
<1>8. c \in Seq(Req \cup {Other}) /\ Answers(s, d, c, m, v, H)
  BY <1>2, <1>4, <1>5, <1>6, <1>7, AnswersSent
<1>9. /\ asked' \in [Src -> Seq(Req)]
      /\ inbox' \in [Src -> Seq(Req \cup {Other})]
      /\ asked'[s] = d /\ inbox'[s] = c
      /\ \A t \in Src : t # s => asked'[t] = asked[t] /\ inbox'[t] = inbox[t]
  BY <1>2, <1>8 DEF IInv, TypeOK
<1>10. TypeOK'
  BY <1>1, <1>9 DEF IInv, TypeOK
<1>11. AnsweredOnce'
  <2>1. ASSUME NEW t \in Src
        PROVE  Answers(t, asked'[t], inbox'[t], m, v, H)
    <3>1. CASE t = s
      BY <1>8, <1>9, <3>1
    <3>2. CASE t # s
      <4>1. Answers(t, asked[t], inbox[t], m, v, H)
        BY <1>3 DEF IInv, AnsweredOnce
      <4> QED BY <1>9, <3>2, <4>1
    <3> QED BY <3>1, <3>2
  <2> QED BY <1>1, <1>3, <2>1 DEF AnsweredOnce
<1>12. stack \in Seq(Frames) /\ Len(stack) \in Nat
  BY DEF IInv, TypeOK
<1>13. FramesSound'
  <2>1. Shrunk(stack, stack') /\ SentKept(mode, mode')
    BY <1>1, <1>12 DEF Shrunk, Alike, SentKept
  <2>2. WaitersUntold(stack', outcome, outcome') /\ stack' \in Seq(Frames)
    BY <1>1, <1>12 DEF WaitersUntold
  <2> QED BY <1>12, <2>1, <2>2, FramesShrunk DEF IInv
<1>14. WaitsWithin(stack, stack') /\ ContextsEnd({}, slot, slot', stack, stack')
  BY <1>1 DEF WaitsWithin, ContextsEnd
<1>15. Fewer(pending, pending', {})
  BY <1>1, SameFewer
<1> QED BY <1>1, <1>10, <1>11, <1>13, <1>14, <1>15, SendsNothing

LEMMA PeerAnswers ==
    ASSUME IInv, NEW s \in Src, Answer(s)
    PROVE  IInv'
<1>1. PICK i \in 1 .. Len(asked[s]) :
         /\ inbox' = [inbox EXCEPT ![s] = Append(@, asked[s][i])]
         /\ asked' = [asked EXCEPT ![s] = RemoveAt(@, i)]
  BY DEF Answer
<1>2. UNCHANGED <<list, mode, via, stack, slot, outcome, link>>
  BY DEF Answer
<1>3. PICK a, x, d :
         a \in Seq(Req) /\ a = asked[s] /\ x = a[i] /\ d = RemoveAt(a, i)
  BY DEF IInv, TypeOK
<1>4. i \in 1 .. Len(a)
  BY <1>3
<1>5. a \in Seq(Req) /\ IsInjective(a)
  BY <1>3 DEF IInv, AnsweredOnce, Answers
<1>6. d \in Seq(Req) /\ ToSet(d) \subseteq ToSet(a) /\ IsInjective(d) /\ a[i] \notin ToSet(d)
  BY <1>3, <1>4, <1>5, RemoveAtMembers
<1>7. x \in Req /\ x \in ToSet(a) /\ x \notin ToSet(d)
  BY <1>3, <1>4, <1>5, <1>6, Members
<1>8. Appended(inbox[s], x, inbox'[s]) /\ inbox' = [inbox EXCEPT ![s] = inbox'[s]]
  BY <1>1, <1>3 DEF IInv, TypeOK, Appended
<1>9. asked' = [asked EXCEPT ![s] = d]
  BY <1>1, <1>3
<1>10. ToSet(d) \subseteq ToSet(asked[s]) /\ (x # Other => x \in ToSet(asked[s]) /\ x \notin ToSet(d))
  BY <1>3, <1>6, <1>7
<1>11. d \in Seq(Req) /\ IsInjective(d) /\ x \in Req \cup {Other}
  BY <1>6, <1>7
<1> QED BY <1>2, <1>8, <1>9, <1>10, <1>11, PeerSends

LEMMA PeerCalls ==
    ASSUME IInv, NEW s \in Src, Call(s)
    PROVE  IInv'
<1>1. /\ inbox' = [inbox EXCEPT ![s] = Append(@, Other)]
      /\ asked' = asked
      /\ UNCHANGED <<list, mode, via, stack, slot, outcome, link>>
  BY DEF Call, books
<1>2. PICK d : d = asked[s] /\ d \in Seq(Req) /\ IsInjective(d)
  BY DEF IInv, TypeOK, AnsweredOnce, Answers
<1>3. Appended(inbox[s], Other, inbox'[s]) /\ inbox' = [inbox EXCEPT ![s] = inbox'[s]]
  BY <1>1 DEF IInv, TypeOK, Appended
<1>4. asked' = [asked EXCEPT ![s] = d] /\ ToSet(d) \subseteq ToSet(asked[s])
  BY <1>1, <1>2 DEF IInv, TypeOK
<1>5. Other \in Req \cup {Other}
  OBVIOUS
<1> QED BY <1>1, <1>2, <1>3, <1>4, <1>5, PeerSends

LEMMA Outside ==
    ASSUME IInv, PeerGone \/ \E r \in Req : Tick(r)
    PROVE  IInv'
<1>1. /\ pending' = pending /\ lost' = lost /\ mode' = mode
      /\ via' = via /\ asked' = asked /\ inbox' = inbox /\ stack' = stack
      /\ slot' = slot /\ outcome' = outcome
  BY DEF PeerGone, Tick, list, books
<1>2. due' \subseteq Req /\ link' \in {"up", "broken", "freed"}
  BY DEF IInv, TypeOK, PeerGone, Tick, list
<1>3. TypeOK'
  BY <1>1, <1>2 DEF IInv, TypeOK
<1>4. Shrunk(stack, stack')
  BY <1>1 DEF IInv, TypeOK, Shrunk, Alike
<1>5. WaitersUntold(stack', outcome, outcome') /\ ContextsEnd({}, slot, slot', stack, stack')
  BY <1>1 DEF WaitersUntold, ContextsEnd
<1>6. Fewer(pending, pending', {})
  BY <1>1, SameFewer
<1> QED BY <1>1, <1>3, <1>4, <1>5, <1>6, BeginsNothing

-----------------------------------------------------------------------------
(* What holds of every connection. *)

LEMMA IInvInit == Init => IInv
<1> SUFFICES ASSUME Init PROVE IInv
  OBVIOUS
<1>1. Len(<<>>) = 0 /\ ToSet(<<>>) = {} /\ IsInjective(<<>>)
  BY EmptyMembers
<1>2. TypeOK
  BY DEF Init, TypeOK, Src, Endings
<1>3. FramesSound /\ UnsentBlank /\ AnsweredOnce
  BY <1>1 DEF Init, FramesSound, UnsentBlank, AnsweredOnce, Answers
<1>4. ContextsLive /\ InnermostFirst
  BY <1>1 DEF Init, ContextsLive, InnermostFirst, Waits
<1> QED BY <1>2, <1>3, <1>4 DEF IInv

LEMMA IInvNext == IInv /\ [Next]_vars => IInv'
<1> SUFFICES ASSUME IInv, [Next]_vars PROVE IInv'
  OBVIOUS
<1>1. CASE Thread
  <2>1. CASE Source
    BY <2>1, Looks DEF Source, Points
  <2>2. CASE Again
    BY <2>2, Looks DEF Again, Points
  <2> QED BY <1>1, <2>1, <2>2, Reads, ChecksTimeouts, Returns DEF Thread
<1>2. CASE Sending
  BY <1>2, SendFails, SendAsync, SendWait DEF Sending
<1>3. CASE pcrdr_wait_and_dispatch_message
  BY <1>3, StartsPoll
<1>4. CASE pcrdr_disconnect
  BY <1>4, Disconnects
<1>5. CASE \E s \in Src : Answer(s) \/ Call(s)
  BY <1>5, PeerAnswers, PeerCalls
<1>6. CASE PeerGone \/ \E r \in Req : Tick(r)
  BY <1>6, Outside
<1>7. CASE UNCHANGED vars
  <2>1. /\ pending' = pending /\ due' = due /\ lost' = lost /\ mode' = mode
        /\ via' = via /\ asked' = asked /\ inbox' = inbox /\ stack' = stack
        /\ slot' = slot /\ outcome' = outcome /\ link' = link
    BY <1>7 DEF vars, list, books
  <2>2. TypeOK'
    BY <2>1 DEF IInv, TypeOK
  <2>3. Shrunk(stack, stack')
    BY <2>1 DEF IInv, TypeOK, Shrunk, Alike
  <2>4. WaitersUntold(stack', outcome, outcome') /\ ContextsEnd({}, slot, slot', stack, stack')
    BY <2>1 DEF WaitersUntold, ContextsEnd
  <2>5. Fewer(pending, pending', {})
    BY <2>1, SameFewer
  <2> QED BY <2>1, <2>2, <2>3, <2>4, <2>5, BeginsNothing
<1> QED BY <1>1, <1>2, <1>3, <1>4, <1>5, <1>6, <1>7 DEF Next

LEMMA IInvHolds == Spec => []IInv
<1> QED BY IInvInit, IInvNext, PTL DEF Spec

-----------------------------------------------------------------------------
(* What the senders are told. *)

Tells(p, m, o, H) ==
    /\ \A r \in ToSet(p) \cap H : o[r] = "result"
    /\ \A r \in ToSet(p) \ H : m[r] = "async" => o[r] = "none"

LEMMA TellsIs ==
    /\ OutcomesTold <=> Tells(pending, mode, outcome, Doing("response", stack))
    /\ OutcomesTold' <=>
          Tells(pending', mode', outcome', Doing("response", stack'))
BY HandlingIs DEF OutcomesTold, Tells

LEMMA HandledAsync ==
    ASSUME IInv
    PROVE  \A r \in Doing("response", stack) : r \in Req /\ mode[r] = "async"
BY DEF IInv, FramesSound, Serves, Doing

\* A step that handles no further response and tells nobody anything new of an
\* asynchronous request that stays pending.
LEMMA TellsFewer ==
    ASSUME IInv, OutcomesTold,
           NEW R, Fewer(pending, pending', R), mode' = mode,
           \A r \in ToSet(pending) \ R :
              r \in Doing("response", stack') <=> r \in Doing("response", stack),
           \A r \in ToSet(pending) \ R : mode[r] = "async" => outcome'[r] = outcome[r]
    PROVE  OutcomesTold'
<1>1. PICK p, q, m, o, x, H, K :
         /\ p = pending /\ q = pending' /\ m = mode
         /\ o = outcome /\ x = outcome' /\ H = Doing("response", stack)
         /\ K = Doing("response", stack')
  OBVIOUS
<1>2. Tells(p, m, o, H)
  BY <1>1, TellsIs
<1>3. /\ ToSet(q) = ToSet(p) \ R
      /\ \A r \in ToSet(p) \ R : r \in K <=> r \in H
      /\ \A r \in ToSet(p) \ R : m[r] = "async" => x[r] = o[r]
      /\ \A r \in H : m[r] = "async"
  BY <1>1, HandledAsync DEF Fewer
<1>4. Tells(q, m, x, K)
  BY <1>2, <1>3 DEF Tells
<1> QED BY <1>1, <1>4, TellsIs

\* A request is added: it is waited for, or nobody was told anything of it.
LEMMA TellsMore ==
    ASSUME OutcomesTold, NEW r, ToSet(pending') = ToSet(pending) \cup {r},
           outcome' = outcome, r \notin Doing("response", stack),
           r \notin ToSet(pending), mode'[r] = "sync" \/ outcome[r] = "none",
           \A x \in ToSet(pending) : mode'[x] = mode[x],
           Doing("response", stack') = Doing("response", stack)
    PROVE  OutcomesTold'
<1>1. Tells(pending, mode, outcome, Doing("response", stack))
  BY TellsIs
<1>3. Tells(pending', mode', outcome', Doing("response", stack'))
  BY <1>1 DEF Tells
<1> QED BY <1>3, TellsIs

LEMMA SendsTells ==
    ASSUME IInv, OutcomesTold, Sending
    PROVE  OutcomesTold'
<1>1. PICK r \in Req : \/ \E s \in Src : \/ pcrdr_send_request(r, s)
                                       \/ pcrdr_send_request_and_wait_response(r, s)
                       \/ \E how \in {"async", "sync"} : send_fails(r, how)
  BY DEF Sending
<1>2. mode[r] = "no"
  BY <1>1 DEF pcrdr_send_request, pcrdr_send_request_and_wait_response, send_fails, Dispatched
<1>3. /\ pending \in Seq(Req) /\ stack \in Seq(Frames) /\ ToSet(pending) \subseteq Req
      /\ r \notin ToSet(pending) /\ outcome[r] = "none"
  BY <1>2, Members DEF IInv, TypeOK, UnsentBlank
<1>4. r \notin Doing("response", stack)
  BY <1>2, HandledAsync
<1>5. CASE \E how \in {"async", "sync"} : send_fails(r, how)
  <2>1. PICK how : mode' = [mode EXCEPT ![r] = how]
    BY <1>5 DEF send_fails
  <2>2. /\ pending' = pending /\ stack' = stack
        /\ outcome' = [outcome EXCEPT ![r] = "error"]
    BY <1>5 DEF send_fails, list
  <2>3. \A x \in ToSet(pending) : mode'[x] = mode[x] /\ outcome'[x] = outcome[x]
    BY <1>3, <2>1, <2>2 DEF IInv, TypeOK
  <2>4. Tells(pending, mode, outcome, Doing("response", stack))
    BY TellsIs
  <2>6. Tells(pending', mode', outcome', Doing("response", stack'))
    BY <2>2, <2>3, <2>4 DEF Tells
  <2> QED BY <2>6, TellsIs
<1>6. CASE \E s \in Src : pcrdr_send_request(r, s)
  <2>1. /\ mode' = [mode EXCEPT ![r] = "async"] /\ Appended(pending, r, pending')
        /\ stack' = stack /\ outcome' = outcome
    BY <1>6 DEF pcrdr_send_request, Dispatched, Appended
  <2>2. ToSet(pending') = ToSet(pending) \cup {r}
    BY <1>3, <2>1, AppendedMembers
  <2>3. \A x \in ToSet(pending) : mode'[x] = mode[x]
    BY <1>3, <2>1 DEF IInv, TypeOK
  <2>4. Doing("response", stack') = Doing("response", stack)
    BY <2>1
  <2> QED BY <1>3, <1>4, <2>1, <2>2, <2>3, <2>4, TellsMore
<1>7. CASE \E s \in Src : pcrdr_send_request_and_wait_response(r, s)
  <2>1. /\ mode' = [mode EXCEPT ![r] = "sync"] /\ Prepended(pending, r, pending')
        /\ outcome' = outcome
        /\ stack' = Append(stack, Frame("wait", r))
    BY <1>7 DEF pcrdr_send_request_and_wait_response, Dispatched, Prepended
  <2>2. ToSet(pending') = ToSet(pending) \cup {r}
    BY <1>3, <2>1, PrependedMembers
  <2>3. \A x \in ToSet(pending) : mode'[x] = mode[x]
    BY <1>3, <2>1 DEF IInv, TypeOK
  <2>5. PICK u, v : u \in Seq(Frames) /\ u = stack /\ v = stack' /\ v = Append(u, Frame("wait", r))
    BY <1>3, <2>1
  <2>6. SameCalls(u, u)
    BY DEF SameCalls, Alike
  <2>7. u \in Seq(Frames) /\ v \in Seq(Frames) /\ Called(u, v, "wait", r)
    BY <2>5, <2>6, CallAdds
  <2>8. Doing("response", v) = Doing("response", u)
    BY <2>7, CalledDoing
  <2>9. Doing("response", stack') = Doing("response", stack)
    BY <2>5, <2>8
  <2> QED BY <1>3, <1>4, <2>1, <2>2, <2>3, <2>9, TellsMore
<1> QED BY <1>1, <1>5, <1>6, <1>7

\* What the sender of r knows changes as RequestOutcome says.
Progress(r) ==
    \/ mode'[r] = mode[r] /\ outcome'[r] = outcome[r]
    \/ mode[r] = "no" /\ mode'[r] # "no"
    \/ /\ mode[r] # "no" /\ mode'[r] = mode[r]
       /\ outcome[r] = "none" /\ outcome'[r] \in Endings
    \/ /\ r \in Doing("response", stack)
       /\ mode[r] # "no" /\ mode'[r] = mode[r]
       /\ outcome[r] = "result" /\ outcome'[r] = "timeout"

\* If its handler is called, it has got its result.
Begun(r) ==
    r \in Doing("response", stack') \ Doing("response", stack) =>
       /\ mode[r] # "no" /\ mode'[r] = mode[r]
       /\ outcome[r] = "none" /\ outcome'[r] = "result"

TellsOnce == OutcomesTold' /\ \A r \in Req : Progress(r) /\ Begun(r)

LEMMA NoneBegun ==
    ASSUME Doing("response", stack') \subseteq Doing("response", stack)
    PROVE  \A r \in Req : Begun(r)
BY DEF Begun

LEMMA DispatchesTells ==
    ASSUME IInv, OutcomesTold, NEW s \in Src, NEW p \in Points, stack # <<>>,
           Top.op \in {"wait", "poll"}, dispatch_message(s, p),
           UNCHANGED <<books, link>>
    PROVE  TellsOnce
<1>1. inbox[s] # <<>> /\ mode' = mode
  BY DEF dispatch_message, books
<1>2. /\ stack \in Seq(Frames) /\ pending \in Seq(Req)
      /\ inbox[s] \in Seq(Req \cup {Other})
      /\ outcome \in [Req -> Endings \cup {"none"}]
  BY DEF IInv, TypeOK
<1>3. PICK u \in Seq(Frames), a \in Seq(Frames) :
         u = stack /\ a = At(p) /\ SameCalls(u, a)
  BY <1>2, AtCalls
<1>4. PICK h \in Req \cup {Other} : h = Head(inbox[s])
  BY <1>1, <1>2, HeadTailProperties
<1>5. h # Other => h \in Req /\ h \notin Doing("response", stack)
  <2>1. h \in ToSet(inbox[s])
    BY <1>1, <1>2, <1>4, TailMembers
  <2> QED BY <2>1, HandlingIs DEF IInv, AnsweredOnce, Answers
<1>7. CASE h = Other /\ stack' = Append(At(p), Frame("handler", Other))
           /\ UNCHANGED <<list, slot, outcome>>
  <2>1. PICK v : v = stack' /\ v = Append(a, Frame("handler", Other))
    BY <1>3, <1>7
  <2>2. v \in Seq(Frames) /\ Called(u, v, "handler", Other)
    BY <1>3, <2>1, CallAdds
  <2>3. Doing("response", v) = Doing("response", u)
    BY <2>2, CalledDoing
  <2>4. pending' = pending /\ outcome' = outcome
    BY <1>7 DEF list
  <2>5. Doing("response", stack') = Doing("response", stack)
    BY <1>3, <2>1, <2>3
  <2>6. Fewer(pending, pending', {})
    BY <2>4, SameFewer
  <2>7. \A r \in ToSet(pending) \ {} : mode[r] = "async" => outcome'[r] = outcome[r]
    BY <2>4
  <2>8. OutcomesTold'
    BY <1>1, <2>5, <2>6, <2>7, TellsFewer
  <2>9. \A r \in Req : Progress(r)
    BY <1>1, <2>4 DEF Progress
  <2> QED BY <2>5, <2>8, <2>9, NoneBegun DEF TellsOnce
<1>8. ASSUME h # Other, stack' = At(p), outcome' = outcome,
             NEW R, Fewer(pending, pending', R)
      PROVE  TellsOnce
  <2>1. Doing("response", stack') = Doing("response", stack)
    BY <1>3, <1>8, SameDoing
  <2>3. \A r \in ToSet(pending) \ R : mode[r] = "async" => outcome'[r] = outcome[r]
    BY <1>8
  <2>4. OutcomesTold'
    BY <1>1, <1>8, <2>1, <2>3, TellsFewer
  <2>5. \A r \in Req : Progress(r)
    BY <1>1, <1>8 DEF Progress
  <2> QED BY <2>1, <2>4, <2>5, NoneBegun DEF TellsOnce
<1>9. CASE h # Other /\ ~ Matches(h) /\ ThrowAway(h) /\ stack' = At(p)
           /\ UNCHANGED <<slot, outcome>>
  <2>1. pending' = pending /\ outcome' = outcome
    BY <1>9 DEF ThrowAway
  <2>2. Fewer(pending, pending', {})
    BY <2>1, SameFewer
  <2> QED BY <1>8, <1>9, <2>1, <2>2
<1>10. CASE h # Other /\ Matches(h) /\ mode[h] = "sync" /\ Unlink({h})
            /\ stack' = At(p) /\ outcome' = outcome
  <2>1. Fewer(pending, pending', {h})
    BY <1>2, <1>10, UnlinkFewer
  <2> QED BY <1>8, <1>10, <2>1
<1>11. CASE h # Other /\ Matches(h) /\ mode[h] = "async"
            /\ outcome' = [outcome EXCEPT ![h] = "result"]
            /\ stack' = Append(At(p), Frame("response", h)) /\ UNCHANGED <<list, slot>>
  <2>1. PICK v : v = stack' /\ v = Append(a, Frame("response", h))
    BY <1>3, <1>11
  <2>2. v \in Seq(Frames) /\ Called(u, v, "response", h)
    BY <1>3, <2>1, CallAdds
  <2>3. Doing("response", v) = Doing("response", u) \cup {h}
    BY <2>2, CalledDoing
  <2>4. Doing("response", stack') = Doing("response", stack) \cup {h}
    BY <1>3, <2>1, <2>3
  <2>7. pending' = pending
    BY <1>11 DEF list
  <2>8. h \in ToSet(pending)
    <3>1. pending # <<>> /\ Head(pending) = h
      BY <1>11 DEF Matches
    <3> QED BY <1>2, <3>1, TailMembers
  <2>9. Tells(pending, mode, outcome, Doing("response", stack))
    BY TellsIs
  <2>10. outcome[h] = "none"
    BY <1>5, <1>11, <2>8, <2>9 DEF Tells
  <2>11. \A r \in Req : outcome'[r] = IF r = h THEN "result" ELSE outcome[r]
    BY <1>2, <1>11
  <2>12. ToSet(pending) \subseteq Req
    BY <1>2, Members
  <2>13. Tells(pending', mode', outcome', Doing("response", stack'))
    BY <1>1, <2>4, <2>7, <2>8, <2>9, <2>11, <2>12 DEF Tells
  <2>14. \A r \in Req : Progress(r)
    BY <1>1, <1>5, <1>11, <2>10, <2>11 DEF Progress, Endings
  <2>15. \A r \in Req : Begun(r)
    BY <1>1, <1>11, <2>4, <2>10, <2>11 DEF Begun
  <2> QED BY <2>13, <2>14, <2>15, TellsIs DEF TellsOnce
<1>12. \/ h = Other /\ stack' = Append(At(p), Frame("handler", Other))
             /\ UNCHANGED <<list, slot, outcome>>
       \/ h # Other /\ handle_response_message(h, p)
  BY <1>4 DEF dispatch_message
<1> QED BY <1>7, <1>9, <1>10, <1>11, <1>12 DEF handle_response_message

\* The call on top goes on, and nothing else happens.
LEMMA MovesTells ==
    ASSUME IInv, OutcomesTold, stack # <<>>, NEW p \in Points,
           stack' = At(p), UNCHANGED <<list, books, outcome>>
    PROVE  TellsOnce
<1>1. pending' = pending /\ mode' = mode /\ outcome' = outcome
  BY DEF list, books
<1>2. stack \in Seq(Frames)
  BY DEF IInv, TypeOK
<1>3. Doing("response", stack') = Doing("response", stack)
  BY <1>2, AtCalls, SameDoing
<1>4. Fewer(pending, pending', {})
  BY <1>1, SameFewer
<1>5. \A r \in ToSet(pending) \ {} : mode[r] = "async" => outcome'[r] = outcome[r]
  BY <1>1
<1>6. OutcomesTold'
  BY <1>1, <1>3, <1>4, <1>5, TellsFewer
<1>7. \A r \in Req : Progress(r)
  BY <1>1 DEF Progress
<1> QED BY <1>3, <1>6, <1>7, NoneBegun DEF TellsOnce

LEMMA LooksTells ==
    ASSUME IInv, OutcomesTold, NEW here \in Points, NEW next \in Points, Look(here, next)
    PROVE  TellsOnce
<1>1. stack # <<>> /\ Top.op \in {"wait", "poll"} /\ UNCHANGED <<books, link>>
  BY DEF Look
<1>2. CASE dispatch_message("extra", next)
  BY <1>1, <1>2, DispatchesTells DEF Src
<1>3. CASE stack' = At(next) /\ UNCHANGED <<list, inbox, slot, outcome>>
  <2>1. UNCHANGED <<list, books, outcome>>
    BY <1>1, <1>3
  <2> QED BY <1>1, <1>3, <2>1, MovesTells
<1> QED BY <1>2, <1>3 DEF Look

LEMMA ReadsTells ==
    ASSUME IInv, OutcomesTold, Read
    PROVE  TellsOnce
<1>1. stack # <<>> /\ Top.op \in {"wait", "poll"} /\ UNCHANGED <<books, link>>
  BY DEF Read
<1>2. CASE dispatch_message("conn", "again")
  BY <1>1, <1>2, DispatchesTells DEF Src, Points
<1>3. CASE stack' = At("check") /\ UNCHANGED <<list, inbox, slot, outcome>>
  <2>1. UNCHANGED <<list, books, outcome>> /\ "check" \in Points
    BY <1>1, <1>3 DEF Points
  <2> QED BY <1>1, <1>3, <2>1, MovesTells
<1>4. CASE /\ Top.op = "wait" /\ GiveUp(Top.req)
           /\ outcome' = [outcome EXCEPT ![Top.req] = "error"]
           /\ stack' = Pop /\ UNCHANGED <<inbox, slot>>
  <2>1. PICK w : w = Top.req
    OBVIOUS
  <2>2. w \in Req /\ mode[w] = "sync"
    BY <1>1, <1>4, <2>1, WaitReturns
  <2>3. mode' = mode /\ outcome' = [outcome EXCEPT ![w] = "error"]
    BY <1>1, <1>4, <2>1 DEF books
  <2>4. /\ stack \in Seq(Frames) /\ pending \in Seq(Req)
        /\ outcome \in [Req -> Endings \cup {"none"}]
    BY DEF IInv, TypeOK
  <2>5. PICK R : Fewer(pending, pending', R)
    <3>1. CASE slot[w] = "null"
      <4>1. Unlink({w})
        BY <1>4, <2>1, <3>1 DEF GiveUp
      <4>2. Fewer(pending, pending', {w})
        BY <2>4, <4>1, UnlinkFewer
      <4> QED BY <4>2
    <3>2. CASE slot[w] # "null"
      <4>1. pending' = pending
        BY <1>4, <2>1, <3>2 DEF GiveUp, list
      <4>2. Fewer(pending, pending', {})
        BY <4>1, SameFewer
      <4> QED BY <4>2
    <3> QED BY <3>1, <3>2
  <2>6. /\ stack' \in Seq(Frames) /\ Returned(stack, stack') /\ Top = stack[Len(stack)]
        /\ Len(stack) \in 1 .. Len(stack)
    BY <1>1, <1>4, <2>4, PopCalls
  <2>7. Doing("response", stack') = Doing("response", stack)
    <3>1. "response" # stack[Len(stack)].op
      BY <1>4, <2>6
    <3> QED BY <1>1, <2>4, <2>6, <3>1, ReturnedDoing
  <2>9. \A r \in ToSet(pending) \ R : mode[r] = "async" => outcome'[r] = outcome[r]
    BY <2>2, <2>3, <2>4, Members
  <2>11. OutcomesTold'
    BY <2>3, <2>5, <2>7, <2>9, TellsFewer
  <2>12. outcome[w] = "none"
    BY <1>4, <2>1, <2>6 DEF IInv, FramesSound
  <2>13. \A r \in Req : Progress(r)
    BY <2>2, <2>3, <2>4, <2>12 DEF Progress, Endings
  <2> QED BY <2>7, <2>11, <2>13, NoneBegun DEF TellsOnce
<1> QED BY <1>2, <1>3, <1>4 DEF Read

LEMMA ChecksTells ==
    ASSUME IInv, OutcomesTold, check_timeout_requests
    PROVE  TellsOnce
<1> DEFINE told == {r \in Overdue : mode[r] = "async"}
           over == Top.op = "wait" /\ slot'[Top.req] # "null"
<1>1. /\ stack # <<>> /\ Top.op \in {"wait", "poll"} /\ Unlink(Overdue)
      /\ UNCHANGED <<books, inbox, link>>
      /\ outcome' = [r \in Req |->
            CASE r \in told -> "timeout"
              [] over /\ r = Top.req -> IF slot'[r] = "msg" THEN "result" ELSE "timeout"
              [] OTHER -> outcome[r]]
      /\ stack' = IF over \/ Top.op = "poll" THEN Pop ELSE At("source")
  BY DEF check_timeout_requests
<1>2. PICK t, w, R : t = told /\ w = Top.req /\ R = Overdue
  OBVIOUS
<1>3. /\ R \subseteq ToSet(pending)
      /\ \A r : r \in t <=> r \in R /\ mode[r] = "async"
  BY <1>2 DEF Overdue
<1>4. /\ stack \in Seq(Frames) /\ pending \in Seq(Req) /\ ToSet(pending) \subseteq Req
  BY Members DEF IInv, TypeOK
<1>5. Fewer(pending, pending', R)
  <2>1. Unlink(R)
    BY <1>1, <1>2
  <2> QED BY <1>4, <2>1, UnlinkFewer
<1>6. mode' = mode
  BY <1>1 DEF books
<1>7. over => w \in Req /\ mode[w] = "sync" /\ outcome[w] = "none"
  <2>1. Top = stack[Len(stack)] /\ Len(stack) \in 1 .. Len(stack)
    BY <1>1, <1>4, PopCalls
  <2> QED BY <1>2, <2>1 DEF IInv, FramesSound, Serves
<1>8. stack' = Pop \/ stack' = At("source")
  BY <1>1
<1> HIDE DEF told, over
<1>9. outcome' = [r \in Req |->
         CASE r \in t -> "timeout"
           [] over /\ r = w -> IF slot'[r] = "msg" THEN "result" ELSE "timeout"
           [] OTHER -> outcome[r]]
  BY <1>1, <1>2
<1>10. \A r \in Req : r \notin t /\ ~ (over /\ r = w) => outcome'[r] = outcome[r]
  BY <1>9
<1>11. \A r \in Req : r \in t => outcome'[r] = "timeout"
  <2> SUFFICES ASSUME NEW r \in Req, r \in t PROVE outcome'[r] = "timeout"
    OBVIOUS
  <2>1. ~ (over /\ r = w)
    BY <1>3, <1>7
  <2> QED BY <1>9, <2>1
<1>12. over => outcome'[w] \in {"result", "timeout"}
  <2> SUFFICES ASSUME over PROVE outcome'[w] \in {"result", "timeout"}
    OBVIOUS
  <2>1. w \in Req /\ w \notin t
    BY <1>3, <1>7
  <2> QED BY <1>9, <2>1
<1>14. Doing("response", stack') = Doing("response", stack)
  <2>1. CASE stack' = Pop
    <3>1. /\ stack' \in Seq(Frames) /\ Returned(stack, stack') /\ Top = stack[Len(stack)]
      BY <1>1, <1>4, <2>1, PopCalls
    <3>2. "response" # stack[Len(stack)].op
      BY <1>1, <3>1
    <3> QED BY <1>1, <1>4, <3>1, <3>2, ReturnedDoing
  <2>2. CASE stack' = At("source")
    BY <1>1, <1>4, <2>2, AtCalls, SameDoing DEF Points
  <2> QED BY <1>8, <2>1, <2>2
<1>16. \A r \in ToSet(pending) \ R : mode[r] = "async" => outcome'[r] = outcome[r]
  BY <1>3, <1>4, <1>7, <1>10
<1>17. OutcomesTold'
  BY <1>5, <1>6, <1>14, <1>16, TellsFewer
<1>18. \A r \in t : /\ mode[r] # "no"
                   /\ \/ outcome[r] = "none"
                      \/ r \in Doing("response", stack) /\ outcome[r] = "result"
  <2>1. Tells(pending, mode, outcome, Doing("response", stack))
    BY TellsIs
  <2> QED BY <1>3, <2>1 DEF Tells
<1>19. \A r \in Req : Progress(r)
  <2> SUFFICES ASSUME NEW r \in Req PROVE Progress(r)
    OBVIOUS
  <2>1. CASE r \in t
    BY <1>6, <1>11, <1>18, <2>1 DEF Progress, Endings
  <2>2. CASE over /\ r = w
    BY <1>6, <1>7, <1>12, <2>2 DEF Progress, Endings
  <2>3. CASE r \notin t /\ ~ (over /\ r = w)
    BY <1>6, <1>10, <2>3 DEF Progress
  <2> QED BY <2>1, <2>2, <2>3
<1> QED BY <1>14, <1>17, <1>19, NoneBegun DEF TellsOnce

LEMMA ReturnsTells ==
    ASSUME IInv, OutcomesTold, HandlerReturns
    PROVE  TellsOnce
<1>1. /\ stack # <<>> /\ Top.op \in {"handler", "response"} /\ stack' = Pop
      /\ Unlink(IF Top.op = "response" THEN {Top.req} ELSE {})
      /\ mode' = mode /\ outcome' = outcome
  BY DEF HandlerReturns, books
<1>2. stack \in Seq(Frames) /\ pending \in Seq(Req)
  BY DEF IInv, TypeOK
<1>3. PICK R, w : R = (IF Top.op = "response" THEN {Top.req} ELSE {}) /\ w = Top.req
  OBVIOUS
<1>4. Fewer(pending, pending', R)
  <2>1. Unlink(R)
    BY <1>1, <1>3
  <2> QED BY <1>2, <2>1, UnlinkFewer
<1>5. /\ stack' \in Seq(Frames) /\ Returned(stack, stack') /\ Top = stack[Len(stack)]
      /\ Len(stack) \in 1 .. Len(stack) /\ Len(stack) \in Nat
  BY <1>1, <1>2, PopCalls
<1>6. Doing("response", stack') = Doing("response", stack) \ R
  <2>1. CASE Top.op # "response"
    <3>1. "response" # stack[Len(stack)].op
      BY <1>5, <2>1
    <3>2. Doing("response", stack') = Doing("response", stack)
      BY <1>1, <1>2, <1>5, <3>1, ReturnedDoing
    <3> QED BY <1>3, <2>1, <3>2
  <2>2. CASE Top.op = "response"
    <3>1. stack[Len(stack)].op = "response" /\ stack[Len(stack)].req = w
      BY <1>3, <1>5, <2>2
    <3>2. Doing("response", stack) = Doing("response", stack') \cup {w}
      BY <1>1, <1>2, <1>5, <3>1, ReturnedDoing
    <3>3. w \notin Doing("response", stack')
      <4> SUFFICES ASSUME w \in Doing("response", stack') PROVE FALSE
        OBVIOUS
      <4>1. PICK i \in 1 .. Len(stack') : stack'[i].op = "response" /\ stack'[i].req = w
        BY DEF Doing
      <4>2. /\ i \in 1 .. Len(stack) /\ i # Len(stack)
            /\ stack[i].op = "response" /\ stack[i].req = w
        BY <1>5, <4>1 DEF Returned, Alike
      <4>3. i = Len(stack)
        BY <1>5, <3>1, <4>2 DEF IInv, FramesSound, Serves
      <4> QED BY <4>2, <4>3
    <3> QED BY <1>3, <2>2, <3>2, <3>3
  <2> QED BY <2>1, <2>2
<1>7. \A r \in ToSet(pending) \ R :
         r \in Doing("response", stack') <=> r \in Doing("response", stack)
  BY <1>6
<1>8. \A r \in ToSet(pending) \ R : mode[r] = "async" => outcome'[r] = outcome[r]
  BY <1>1
<1>9. OutcomesTold'
  BY <1>1, <1>4, <1>7, <1>8, TellsFewer
<1>10. Doing("response", stack') \subseteq Doing("response", stack)
  BY <1>6
<1>11. \A r \in Req : Progress(r)
  BY <1>1 DEF Progress
<1> QED BY <1>9, <1>10, <1>11, NoneBegun DEF TellsOnce

LEMMA DisconnectsTells ==
    ASSUME IInv, OutcomesTold, pcrdr_disconnect
    PROVE  TellsOnce
<1>1. /\ stack = <<>> /\ stack' = stack /\ mode' = mode /\ Unlink(ToSet(pending))
      /\ outcome' = [r \in Req |-> IF r \in ToSet(pending) /\ mode[r] = "async"
                                   THEN "cancelled" ELSE outcome[r]]
  BY DEF pcrdr_disconnect, books
<1>2. PICK R : R = ToSet(pending)
  OBVIOUS
<1>3. Fewer(pending, pending', R)
  BY <1>1, <1>2, UnlinkFewer DEF IInv, TypeOK
<1>4. Doing("response", stack) = {} /\ Doing("response", stack') = {}
  BY <1>1 DEF Doing
<1>5. ToSet(pending') = {}
  BY <1>2, <1>3 DEF Fewer
<1>6. Tells(pending', mode', outcome', Doing("response", stack'))
  BY <1>4, <1>5 DEF Tells
<1>7. Tells(pending, mode, outcome, Doing("response", stack))
  BY TellsIs
<1>8. \A r \in ToSet(pending) : mode[r] = "async" => outcome[r] = "none"
  BY <1>4, <1>7 DEF Tells
<1>9. \A r \in Req : Progress(r)
  BY <1>1, <1>8 DEF Progress, Endings
<1> QED BY <1>4, <1>6, <1>9, TellsIs, NoneBegun DEF TellsOnce

\* Steps that leave the list, the calls and the outcomes alone.
LEMMA OthersTells ==
    ASSUME IInv, OutcomesTold, pending' = pending, mode' = mode, outcome' = outcome,
           stack' = stack
    PROVE  TellsOnce
<1>1. Tells(pending, mode, outcome, Doing("response", stack))
  BY TellsIs
<1>2. Tells(pending', mode', outcome', Doing("response", stack'))
  BY <1>1
<1>3. \A r \in Req : Progress(r)
  BY DEF Progress
<1>4. \A r \in Req : Begun(r)
  BY NoneBegun
<1> QED BY <1>2, <1>3, <1>4, TellsIs DEF TellsOnce

LEMMA StartsPollTells ==
    ASSUME IInv, OutcomesTold, pcrdr_wait_and_dispatch_message
    PROVE  TellsOnce
<1>1. /\ stack = <<>> /\ stack' = <<Frame("poll", Other)>>
      /\ pending' = pending /\ mode' = mode /\ outcome' = outcome
  BY DEF pcrdr_wait_and_dispatch_message, list, books
<1>2. Doing("response", stack) = {}
  BY <1>1 DEF Doing
<1>3. Doing("response", stack') = {}
  <2>1. \A f : Len(<<f>>) = 1 /\ <<f>>[1] = f
    OBVIOUS
  <2>2. Len(stack') = 1 /\ stack'[1].op = "poll"
    BY <1>1, <2>1, FrameTyped
  <2> QED BY <2>2 DEF Doing
<1>4. Fewer(pending, pending', {})
  BY <1>1, SameFewer
<1>5. Doing("response", stack') = Doing("response", stack)
  BY <1>2, <1>3
<1>7. \A r \in ToSet(pending) \ {} : mode[r] = "async" => outcome'[r] = outcome[r]
  BY <1>1
<1>8. OutcomesTold'
  BY <1>1, <1>4, <1>5, <1>7, TellsFewer
<1>9. \A r \in Req : Progress(r)
  BY <1>1 DEF Progress
<1> QED BY <1>5, <1>8, <1>9, NoneBegun DEF TellsOnce

LEMMA SendsProgress ==
    ASSUME IInv, Sending
    PROVE  \A r \in Req : Progress(r)
<1>1. PICK q \in Req : \/ \E s \in Src : \/ pcrdr_send_request(q, s)
                                       \/ pcrdr_send_request_and_wait_response(q, s)
                       \/ \E how \in {"async", "sync"} : send_fails(q, how)
  BY DEF Sending
<1>2. PICK how \in {"async", "sync"} : mode[q] = "no" /\ mode' = [mode EXCEPT ![q] = how]
  BY <1>1 DEF pcrdr_send_request, pcrdr_send_request_and_wait_response, send_fails, Dispatched
<1>3. outcome' = outcome \/ outcome' = [outcome EXCEPT ![q] = "error"]
  BY <1>1 DEF pcrdr_send_request, pcrdr_send_request_and_wait_response, send_fails
<1> QED BY <1>2, <1>3 DEF Progress, IInv, TypeOK

LEMMA SendsBegunNone ==
    ASSUME IInv, Sending
    PROVE  \A r \in Req : Begun(r)
<1>1. PICK r \in Req : \/ \E s \in Src : \/ pcrdr_send_request(r, s)
                                       \/ pcrdr_send_request_and_wait_response(r, s)
                       \/ \E how \in {"async", "sync"} : send_fails(r, how)
  BY DEF Sending
<1>2. CASE stack' = stack
  BY <1>2, NoneBegun
<1>3. CASE stack' = Append(stack, Frame("wait", r))
  <2>1. PICK u, v : /\ u \in Seq(Frames) /\ u = stack /\ v = stack'
                    /\ v = Append(u, Frame("wait", r))
    BY <1>3 DEF IInv, TypeOK
  <2>2. SameCalls(u, u)
    BY DEF SameCalls, Alike
  <2>3. u \in Seq(Frames) /\ v \in Seq(Frames) /\ Called(u, v, "wait", r)
    BY <2>1, <2>2, CallAdds
  <2>4. Doing("response", v) = Doing("response", u)
    BY <2>3, CalledDoing
  <2> QED BY <2>1, <2>4, NoneBegun
<1>4. stack' = stack \/ stack' = Append(stack, Frame("wait", r))
  BY <1>1 DEF pcrdr_send_request, pcrdr_send_request_and_wait_response, send_fails
<1> QED BY <1>2, <1>3, <1>4

LEMMA OutcomesToldInit == Init => OutcomesTold
<1> SUFFICES ASSUME Init PROVE OutcomesTold
  OBVIOUS
<1>1. ToSet(pending) = {} /\ Doing("response", stack) = {}
  BY EmptyMembers DEF Init, Doing
<1>2. Tells(pending, mode, outcome, Doing("response", stack))
  BY <1>1 DEF Tells
<1> QED BY <1>2, TellsIs

LEMMA TellsNext ==
    ASSUME IInv, OutcomesTold, [Next]_vars
    PROVE  TellsOnce
<1>1. CASE Thread
  <2>1. CASE Source \/ Again
    BY <2>1, LooksTells DEF Source, Again, Points
  <2> QED BY <1>1, <2>1, ReadsTells, ChecksTells, ReturnsTells DEF Thread
<1>2. CASE Sending
  BY <1>2, SendsTells, SendsProgress, SendsBegunNone DEF TellsOnce
<1>3. CASE pcrdr_wait_and_dispatch_message
  BY <1>3, StartsPollTells
<1>4. CASE pcrdr_disconnect
  BY <1>4, DisconnectsTells
<1>5. CASE \/ \E s \in Src : Answer(s) \/ Call(s)
           \/ \E r \in Req : Tick(r)
           \/ PeerGone \/ UNCHANGED vars
  <2>1. pending' = pending /\ mode' = mode /\ outcome' = outcome /\ stack' = stack
    BY <1>5 DEF Answer, Call, Tick, PeerGone, vars, list, books
  <2> QED BY <2>1, OthersTells
<1> QED BY <1>1, <1>2, <1>3, <1>4, <1>5 DEF Next

LEMMA OutcomesToldHolds == Spec => []OutcomesTold
<1>1. IInv /\ OutcomesTold /\ [Next]_vars => OutcomesTold'
  BY TellsNext DEF TellsOnce
<1> QED BY <1>1, OutcomesToldInit, IInvHolds, PTL DEF Spec

-----------------------------------------------------------------------------
(* The order in which the renderer answers. *)

\* The requests of A, which are asked in a and answered in b, lie in the list p
\* in the order in which they were asked, the answers first; one that is neither
\* in a nor in b is in L, its answer was thrown away, or in H, it is handled.
InOrder(p, L, A, H, a, b) ==
    /\ \A r \in A : r \in ToSet(p) => r \in L \cup H \cup ToSet(a) \cup ToSet(b)
    /\ \A x, y \in A : Precedes(p, x, y) =>
          /\ ~ Precedes(a, y, x) /\ ~ Precedes(b, y, x)
          /\ ~ (y \in ToSet(b) /\ x \in ToSet(a))

\* The requests that join the list at its tail and that the renderer answers.
Queued == {r \in Req : mode[r] = "async" /\ via[r] = "conn"}

AnswersInOrder ==
    InOrder(pending, lost, Queued, Handling, asked["conn"], inbox["conn"])

\* What is left in c of the answers in b.
Within(c, b) == /\ ToSet(c) \subseteq ToSet(b)
                /\ \A x, y : Precedes(c, x, y) => Precedes(b, x, y)

\* What was read, in b but not in c, is no longer in q, or is in M or in K.
Accounted(q, b, c, M, K) ==
    \A r \in ToSet(q) : r \in ToSet(b) => r \in M \cup K \cup ToSet(c)

\* No request of the list p is in B and was not in A.
NoneEnters(B, A, p) == \A r \in B : r \in A \/ r \notin ToSet(p)

\* Requests R leave the list, and answers are read.
Leaves(R, p, L, A, H, b, q, M, B, K, c) ==
    /\ Fewer(p, q, R) /\ L \ R \subseteq M /\ H \ R \subseteq K
    /\ NoneEnters(B, A, p) /\ Within(c, b) /\ Accounted(q, b, c, M, K)

LEMMA OrderFewer ==
    ASSUME NEW p \in Seq(Req), NEW a, NEW b, NEW L, NEW A, NEW H,
           NEW R, NEW q, NEW M, NEW B, NEW K, NEW c,
           InOrder(p, L, A, H, a, b), Leaves(R, p, L, A, H, b, q, M, B, K, c)
    PROVE  InOrder(q, M, B, K, a, c)
<1>1. /\ \A r \in ToSet(q) : r \in ToSet(p) /\ r \notin R
      /\ \A x, y : Precedes(q, x, y) => Precedes(p, x, y)
  BY DEF Leaves, Fewer
<1>2. \A r \in B : r \in ToSet(q) => r \in M \cup K \cup ToSet(a) \cup ToSet(c)
  BY <1>1 DEF Leaves, InOrder, Within, Accounted, NoneEnters
<1>3. \A x, y \in B : Precedes(q, x, y) =>
         /\ ~ Precedes(a, y, x) /\ ~ Precedes(c, y, x)
         /\ ~ (y \in ToSet(c) /\ x \in ToSet(a))
  BY <1>1, PrecedesMembers DEF Leaves, InOrder, Within, NoneEnters
<1> QED BY <1>2, <1>3 DEF InOrder

\* A request r is sent: it joins the list at its tail if it is in B, and
\* elsewhere otherwise.
LEMMA OrderSent ==
    ASSUME NEW p \in Seq(Req), NEW a \in Seq(Req), NEW b \in Seq(Req \cup {Other}),
           NEW L, NEW A, NEW H, InOrder(p, L, A, H, a, b),
           NEW r, r \notin ToSet(p), r \notin ToSet(a), r \notin ToSet(b),
           NEW B, \A x \in B : x = r \/ x \in A \/ x \notin ToSet(p),
           NEW q \in Seq(Req), ToSet(q) = ToSet(p) \cup {r}, IsInjective(q),
           \A x, y : Precedes(q, x, y) =>
              Precedes(p, x, y) \/ y = r \/ (x = r /\ r \notin B),
           NEW c, \/ c = a /\ r \notin B
                  \/ Appended(a, r, c)
    PROVE  InOrder(q, L, B, H, c, b)
<1>1. \A x, y : Precedes(p, x, y) => x \in ToSet(p) /\ y \in ToSet(p)
  BY PrecedesMembers
<1>2. \A x, y : Precedes(a, x, y) => x \in ToSet(a) /\ y \in ToSet(a)
  BY PrecedesMembers
<1>3. \A x, y : Precedes(b, x, y) => x \in ToSet(b) /\ y \in ToSet(b)
  BY PrecedesMembers
<1>4. \A x : ~ Precedes(q, x, x)
  BY NoneBeforeItself
<1>5. /\ ToSet(a) \subseteq ToSet(c) /\ ToSet(c) \subseteq ToSet(a) \cup {r}
      /\ r \in B => r \in ToSet(c)
      /\ \A x, y : Precedes(c, x, y) => Precedes(a, x, y) \/ y = r
  <2>1. CASE c = a /\ r \notin B
    BY <2>1
  <2>2. CASE Appended(a, r, c)
    <3>1. r \in Req
      <4>1. ToSet(q) \subseteq Req
        BY Members
      <4> QED BY <4>1
    <3>2. ToSet(c) = ToSet(a) \cup {r}
      BY <2>2, <3>1, AppendedMembers
    <3>3. \A x, y : Precedes(c, x, y) <=> Precedes(a, x, y) \/ (y = r /\ x \in ToSet(a))
      BY <2>2, <3>1, AppendedMembers
    <3> QED BY <3>2, <3>3
  <2> QED BY <2>1, <2>2
<1>6. \A x \in B : x \in ToSet(q) => x \in L \cup H \cup ToSet(c) \cup ToSet(b)
  BY <1>5 DEF InOrder
<1>7. ASSUME NEW x \in B, NEW y \in B, Precedes(q, x, y)
      PROVE  /\ ~ Precedes(c, y, x) /\ ~ Precedes(b, y, x)
             /\ ~ (y \in ToSet(b) /\ x \in ToSet(c))
  <2>1. CASE Precedes(p, x, y)
    <3>1. x \in A /\ y \in A /\ x # r
      BY <1>1, <2>1
    <3>2. /\ ~ Precedes(a, y, x) /\ ~ Precedes(b, y, x)
          /\ ~ (y \in ToSet(b) /\ x \in ToSet(a))
      BY <2>1, <3>1 DEF InOrder
    <3> QED BY <1>5, <3>1, <3>2
  <2>2. CASE y = r
    <3>1. x # r
      BY <1>4, <1>7, <2>2
    <3> QED BY <1>2, <1>3, <1>5, <2>2, <3>1
  <2>3. y = r \/ Precedes(p, x, y)
    BY <1>7
  <2> QED BY <2>1, <2>2, <2>3
<1> QED BY <1>6, <1>7 DEF InOrder

\* The answer to the first request, or a message that is no answer, is sent.
LEMMA OrderAnswered ==
    ASSUME NEW p \in Seq(Req), NEW a, NEW S, NEW b \in Seq(S),
           NEW L, NEW A, NEW H, InOrder(p, L, A, H, a, b),
           NEW x \in S, NEW c, Appended(b, x, c),
           NEW d, \/ d = a /\ x \notin ToSet(p)
                  \/ /\ ToSet(a) = ToSet(d) \cup {x} /\ x \notin ToSet(d)
                     /\ \A y, z : Precedes(a, y, z) <=>
                           Precedes(d, y, z) \/ (y = x /\ z \in ToSet(d))
    PROVE  InOrder(p, L, A, H, d, c)
<1>1. ToSet(c) = ToSet(b) \cup {x}
  BY AppendedMembers
<1>2. \A y, z : Precedes(c, y, z) <=> Precedes(b, y, z) \/ (z = x /\ y \in ToSet(b))
  BY AppendedMembers
<1>3. \A y, z : Precedes(p, y, z) => y \in ToSet(p) /\ z \in ToSet(p)
  BY PrecedesMembers
<1>4. /\ ToSet(a) \subseteq ToSet(d) \cup {x} /\ ToSet(d) \subseteq ToSet(a)
      /\ \A y, z : Precedes(d, y, z) => Precedes(a, y, z)
  OBVIOUS
<1>5. x \in ToSet(p) =>
         /\ x \in ToSet(a) /\ x \notin ToSet(d)
         /\ \A z \in ToSet(d) : Precedes(a, x, z)
  OBVIOUS
<1>6. \A r \in A : r \in ToSet(p) => r \in L \cup H \cup ToSet(d) \cup ToSet(c)
  BY <1>1, <1>4 DEF InOrder
<1>7. ASSUME NEW y \in A, NEW z \in A, Precedes(p, y, z)
      PROVE  /\ ~ Precedes(d, z, y) /\ ~ Precedes(c, z, y)
             /\ ~ (z \in ToSet(c) /\ y \in ToSet(d))
  <2>1. /\ ~ Precedes(a, z, y) /\ ~ Precedes(b, z, y)
        /\ ~ (z \in ToSet(b) /\ y \in ToSet(a))
    BY <1>7 DEF InOrder
  <2>2. y \in ToSet(p) /\ z \in ToSet(p)
    BY <1>3, <1>7
  <2>3. ~ Precedes(d, z, y)
    BY <1>4, <2>1
  <2>4. ~ Precedes(c, z, y)
    BY <1>2, <1>5, <2>1, <2>2
  <2>5. ~ (z \in ToSet(c) /\ y \in ToSet(d))
    BY <1>1, <1>4, <1>5, <2>1, <2>2
  <2> QED BY <2>3, <2>4, <2>5
<1> QED BY <1>6, <1>7 DEF InOrder

\* Steps that send nothing and read nothing.
LEMMA InOrderKept ==
    ASSUME IInv, AnswersInOrder, NEW R, Fewer(pending, pending', R),
           lost' = lost \ R,
           Doing("response", stack) \ R \subseteq Doing("response", stack'),
           \A r \in Req : r \in ToSet(pending) => mode'[r] = mode[r] /\ via'[r] = via[r],
           asked' = asked, inbox' = inbox
    PROVE  AnswersInOrder' /\ lost' \ lost = {}
<1>1. PICK p, q : p = pending /\ q = pending' /\ p \in Seq(Req)
  BY DEF IInv, TypeOK
<1>2. PICK L, M, A, B, H, K :
         /\ L = lost /\ M = lost' /\ A = Queued /\ B = Queued'
         /\ H = Handling /\ K = Handling'
  OBVIOUS
<1>3. PICK a, b : a = asked["conn"] /\ b = inbox["conn"]
  OBVIOUS
<1>4. p \in Seq(Req) /\ InOrder(p, L, A, H, a, b)
  BY <1>1, <1>2, <1>3 DEF AnswersInOrder
<1>5. Fewer(p, q, R) /\ L \ R \subseteq M /\ H \ R \subseteq K
  BY <1>1, <1>2, HandlingIs
<1>6. NoneEnters(B, A, p)
  BY <1>1, <1>2 DEF Queued, NoneEnters
<1>7. InOrder(q, M, B, K, a, b)
  <2>1. Within(b, b) /\ Accounted(q, b, b, M, K)
    BY DEF Within, Accounted
  <2>2. Leaves(R, p, L, A, H, b, q, M, B, K, b)
    BY <1>5, <1>6, <2>1 DEF Leaves
  <2> QED BY <1>4, <2>2, OrderFewer
<1> QED BY <1>1, <1>2, <1>3, <1>7 DEF AnswersInOrder

\* A message is read: a response is thrown away, begins to be handled, or was
\* awaited by the call whose request leaves the list.
LEMMA DispatchInOrder ==
    ASSUME IInv, AnswersInOrder, NEW s \in Src, NEW p \in Points, stack # <<>>,
           dispatch_message(s, p), UNCHANGED <<books, link>>
    PROVE  AnswersInOrder'
<1>1. /\ inbox[s] # <<>> /\ inbox' = [inbox EXCEPT ![s] = Tail(@)]
      /\ mode' = mode /\ via' = via /\ asked' = asked
  BY DEF dispatch_message, books
<1>2. /\ stack \in Seq(Frames) /\ pending \in Seq(Req)
      /\ inbox[s] \in Seq(Req \cup {Other})
  BY DEF IInv, TypeOK
<1>3. PICK u \in Seq(Frames), a \in Seq(Frames) :
         u = stack /\ a = At(p) /\ SameCalls(u, a)
  BY <1>2, AtCalls
<1>4. PICK h \in Req \cup {Other} : h = Head(inbox[s])
  BY <1>1, <1>2, HeadTailProperties
<1>5. Doing("response", a) = Doing("response", u)
  BY <1>3, SameDoing
<1>6. PICK R : /\ Fewer(pending, pending', R) /\ lost \ R \subseteq lost'
               /\ Doing("response", stack) \ R \subseteq Doing("response", stack')
               /\ h \in ToSet(pending') => h \in lost' \cup Doing("response", stack')
  <2>1. CASE h = Other /\ stack' = Append(At(p), Frame("handler", Other))
             /\ UNCHANGED list
    <3>1. PICK v : v = stack' /\ v = Append(a, Frame("handler", Other))
      BY <1>3, <2>1
    <3>2. v \in Seq(Frames) /\ Called(u, v, "handler", Other)
      BY <1>3, <3>1, CallAdds
    <3>3. Doing("response", v) = Doing("response", u)
      BY <3>2, CalledDoing
    <3>4. pending' = pending /\ lost' = lost
      BY <2>1 DEF list
    <3>5. h \notin ToSet(pending)
      <4>1. ToSet(pending) \subseteq Req
        BY <1>2, Members
      <4> QED BY <2>1, <4>1, RequestsAssumption
    <3>6. Fewer(pending, pending', {})
      BY <3>4, SameFewer
    <3> QED BY <1>3, <3>1, <3>3, <3>4, <3>5, <3>6
  <2>2. CASE h # Other /\ ThrowAway(h) /\ stack' = At(p)
    <3>1. pending' = pending /\ lost' = lost \cup ({h} \cap ToSet(pending))
      BY <2>2 DEF ThrowAway
    <3>2. Fewer(pending, pending', {})
      BY <3>1, SameFewer
    <3> QED BY <1>3, <1>5, <2>2, <3>1, <3>2
  <2>3. CASE Unlink({h}) /\ stack' = At(p)
    <3>1. Fewer(pending, pending', {h}) /\ lost' = lost \ {h}
      BY <1>2, <2>3, UnlinkFewer
    <3>2. h \notin ToSet(pending')
      BY <3>1 DEF Fewer
    <3> QED BY <1>3, <1>5, <2>3, <3>1, <3>2
  <2>4. CASE h # Other /\ stack' = Append(At(p), Frame("response", h))
             /\ UNCHANGED list
    <3>1. PICK v : v = stack' /\ v = Append(a, Frame("response", h))
      BY <1>3, <2>4
    <3>2. v \in Seq(Frames) /\ Called(u, v, "response", h)
      BY <1>3, <3>1, CallAdds
    <3>3. Doing("response", v) = Doing("response", u) \cup {h}
      BY <3>2, CalledDoing
    <3>4. pending' = pending /\ lost' = lost
      BY <2>4 DEF list
    <3>5. Fewer(pending, pending', {})
      BY <3>4, SameFewer
    <3> QED BY <1>3, <3>1, <3>3, <3>4, <3>5
  <2>5. \/ h = Other /\ stack' = Append(At(p), Frame("handler", Other))
              /\ UNCHANGED list
        \/ h # Other /\ handle_response_message(h, p)
    BY <1>4 DEF dispatch_message
  <2>6. handle_response_message(h, p) =>
           \/ ThrowAway(h) /\ stack' = At(p)
           \/ Unlink({h}) /\ stack' = At(p)
           \/ stack' = Append(At(p), Frame("response", h)) /\ UNCHANGED list
    BY DEF handle_response_message
  <2> QED BY <2>1, <2>2, <2>3, <2>4, <2>5, <2>6
<1>7. PICK b, c \in Seq(Req \cup {Other}) : b = inbox["conn"] /\ c = inbox'["conn"]
  <2>1. Tail(inbox[s]) \in Seq(Req \cup {Other})
    BY <1>1, <1>2, HeadTailProperties
  <2> QED BY <1>1, <2>1 DEF IInv, TypeOK, Src
<1>8. /\ \A x, y : Precedes(c, x, y) => Precedes(b, x, y)
      /\ ToSet(c) \subseteq ToSet(b) /\ ToSet(b) \subseteq ToSet(c) \cup {h}
  <2>1. CASE s = "conn"
    <3>1. b # <<>> /\ c = Tail(b) /\ h = Head(b)
      BY <1>1, <1>4, <1>7, <2>1 DEF IInv, TypeOK
    <3>2. PICK S : S = Req \cup {Other}
      OBVIOUS
    <3>3. b \in Seq(S) /\ c \in Seq(S) /\ h \in S
      BY <1>7, <3>2
    <3>4. /\ Len(b) = Len(c) + 1 /\ b[1] = h
          /\ \A i \in 1 .. Len(c) : b[i + 1] = c[i]
      BY <3>1, <3>3, HeadTailProperties
    <3>5. ToSet(b) = ToSet(c) \cup {h}
      BY <3>3, <3>4, InFrontMembers
    <3>6. \A x, y : Precedes(b, x, y) <=> Precedes(c, x, y) \/ (x = h /\ y \in ToSet(c))
      BY <3>3, <3>4, InFrontMembers
    <3> QED BY <3>5, <3>6
  <2>2. CASE s # "conn"
    <3>1. c = b
      BY <1>1, <1>7, <2>2 DEF IInv, TypeOK, Src
    <3> QED BY <3>1
  <2> QED BY <2>1, <2>2
<1>9. PICK pl, q : pl = pending /\ q = pending' /\ pl \in Seq(Req)
  BY <1>2
<1>10. PICK L, M, A, H, K, d :
         /\ L = lost /\ M = lost' /\ A = Queued /\ A = Queued'
         /\ H = Handling /\ K = Handling'
         /\ d = asked["conn"] /\ d = asked'["conn"]
  BY <1>1 DEF Queued
<1>11. pl \in Seq(Req) /\ InOrder(pl, L, A, H, d, b)
  BY <1>7, <1>9, <1>10 DEF AnswersInOrder
<1>12. Fewer(pl, q, R) /\ L \ R \subseteq M /\ H \ R \subseteq K
  BY <1>6, <1>9, <1>10, HandlingIs
<1>13. Accounted(q, b, c, M, K)
  BY <1>6, <1>8, <1>9, <1>10, HandlingIs DEF Accounted
<1>14. InOrder(q, M, A, K, d, c)
  <2>1. Within(c, b) /\ NoneEnters(A, A, pl)
    BY <1>8 DEF Within, NoneEnters
  <2>2. Leaves(R, pl, L, A, H, b, q, M, A, K, c)
    BY <1>12, <1>13, <2>1 DEF Leaves
  <2> QED BY <1>11, <2>2, OrderFewer
<1> QED BY <1>7, <1>9, <1>10, <1>14 DEF AnswersInOrder

\* A request is sent.
LEMMA SendsInOrder ==
    ASSUME IInv, IInv', AnswersInOrder, NEW r \in Req, NEW s \in Src,
           \/ /\ Dispatched(r, s, "async") /\ pending' = Append(pending, r)
              /\ stack' = stack
           \/ /\ Dispatched(r, s, "sync") /\ pending' = <<r>> \o pending
              /\ stack' = Append(stack, Frame("wait", r)),
           lost' = lost, inbox' = inbox
    PROVE  AnswersInOrder'
<1>1. PICK how \in {"async", "sync"} :
         /\ Dispatched(r, s, how)
         /\ \/ /\ how = "async" /\ pending' = Append(pending, r)
               /\ stack' = stack
            \/ /\ how = "sync" /\ pending' = <<r>> \o pending
               /\ stack' = Append(stack, Frame("wait", r))
  OBVIOUS
<1>2. /\ mode[r] = "no" /\ mode' = [mode EXCEPT ![r] = how]
      /\ via' = [via EXCEPT ![r] = s]
      /\ asked' = [asked EXCEPT ![s] = Append(@, r)]
  BY <1>1 DEF Dispatched
<1>3. /\ stack \in Seq(Frames) /\ pending \in Seq(Req) /\ pending' \in Seq(Req)
      /\ IsInjective(pending')
  BY DEF IInv, TypeOK, ContextsLive
<1>4. Doing("response", stack') = Doing("response", stack)
  <2>1. CASE stack' = stack
    BY <2>1
  <2>2. CASE stack' = Append(stack, Frame("wait", r))
    <3>1. PICK u, v :
             u \in Seq(Frames) /\ u = stack /\ v = stack' /\ v = Append(u, Frame("wait", r))
      BY <1>3, <2>2
    <3>2. u \in Seq(Frames) /\ v \in Seq(Frames) /\ Called(u, v, "wait", r)
      <4>1. SameCalls(u, u)
        BY DEF SameCalls, Alike
      <4> QED BY <3>1, <4>1, CallAdds
    <3>3. Doing("response", v) = Doing("response", u)
      BY <3>2, CalledDoing
    <3> QED BY <3>1, <3>3
  <2> QED BY <1>1, <2>1, <2>2
<1>5. PICK p, q : p \in Seq(Req) /\ q \in Seq(Req) /\ p = pending /\ q = pending'
  BY <1>3
<1>6. PICK L, A, B, H :
         /\ L = lost /\ L = lost' /\ A = Queued /\ B = Queued'
         /\ H = Handling /\ H = Handling'
  BY <1>4, HandlingIs
<1>7. PICK a, b, c :
         /\ a \in Seq(Req) /\ b \in Seq(Req \cup {Other})
         /\ a = asked["conn"] /\ b = inbox["conn"]
         /\ c = asked'["conn"] /\ b = inbox'["conn"]
  BY DEF IInv, TypeOK, Src
<1>8. InOrder(p, L, A, H, a, b)
  BY <1>5, <1>6, <1>7 DEF AnswersInOrder
<1>9. r \notin ToSet(p)
  BY <1>2, <1>5 DEF IInv, UnsentBlank
<1>10. r \notin ToSet(a) /\ r \notin ToSet(b)
  BY <1>2, <1>7, RequestsAssumption DEF IInv, AnsweredOnce, Answers, Src
<1>11. r \in B <=> how = "async" /\ s = "conn"
  BY <1>2, <1>6 DEF IInv, TypeOK, Queued
<1>12. \A x \in B : x = r \/ x \in A \/ x \notin ToSet(p)
  BY <1>2, <1>6 DEF IInv, TypeOK, Queued
<1>13. (c = a /\ r \notin B) \/ Appended(a, r, c)
  <2>1. CASE s = "conn"
    BY <1>2, <1>7, <2>1 DEF IInv, TypeOK, Appended
  <2>2. CASE s # "conn"
    BY <1>2, <1>7, <1>11, <2>2 DEF IInv, TypeOK, Src
  <2> QED BY <2>1, <2>2
<1>14. /\ ToSet(q) = ToSet(p) \cup {r} /\ IsInjective(q)
       /\ \A x, y : Precedes(q, x, y) =>
             Precedes(p, x, y) \/ y = r \/ (x = r /\ r \notin B)
  <2>1. CASE how = "async"
    <3>1. Appended(p, r, q)
      BY <1>1, <1>5, <2>1 DEF Appended
    <3>2. ToSet(q) = ToSet(p) \cup {r}
      BY <1>5, <3>1, AppendedMembers
    <3>3. \A x, y : Precedes(q, x, y) <=> Precedes(p, x, y) \/ (y = r /\ x \in ToSet(p))
      BY <1>5, <3>1, AppendedMembers
    <3> QED BY <1>3, <1>5, <3>2, <3>3
  <2>2. CASE how = "sync"
    <3>1. Prepended(p, r, q)
      BY <1>1, <1>5, <2>2 DEF Prepended
    <3>2. ToSet(q) = ToSet(p) \cup {r}
      BY <1>5, <3>1, PrependedMembers
    <3>3. \A x, y : Precedes(q, x, y) <=> Precedes(p, x, y) \/ (x = r /\ y \in ToSet(p))
      BY <1>5, <3>1, PrependedMembers
    <3> QED BY <1>3, <1>5, <1>11, <2>2, <3>2, <3>3
  <2> QED BY <2>1, <2>2
<1>15. InOrder(q, L, B, H, c, b)
  <2>1. p \in Seq(Req) /\ q \in Seq(Req) /\ a \in Seq(Req) /\ b \in Seq(Req \cup {Other})
    BY <1>5, <1>7
  <2> QED BY <1>8, <1>9, <1>10, <1>12, <1>13, <1>14, <2>1, OrderSent
<1> QED BY <1>5, <1>6, <1>7, <1>15 DEF AnswersInOrder

\* The peer sends x, an answer to its first request or no answer.
LEMMA PeerInOrder ==
    ASSUME IInv, AnswersInOrder, NEW s \in Src, Answer(s) \/ Call(s)
    PROVE  AnswersInOrder'
<1>1. /\ pending' = pending /\ lost' = lost /\ mode' = mode /\ via' = via
      /\ stack' = stack
  BY DEF Answer, Call, list, books
<1>2. PICK p, L, A, H :
         /\ p \in Seq(Req) /\ p = pending /\ p = pending' /\ L = lost /\ L = lost'
         /\ A = Queued /\ A = Queued' /\ H = Handling /\ H = Handling'
  BY <1>1, HandlingIs DEF IInv, TypeOK, Queued
<1>3. PICK a, b, c, d :
         /\ a = asked["conn"] /\ b = inbox["conn"] /\ c = inbox'["conn"]
         /\ d = asked'["conn"]
  OBVIOUS
<1>4. PICK S : S = Req \cup {Other}
  OBVIOUS
<1>5. a \in Seq(Req) /\ b \in Seq(S) /\ IsInjective(a)
  BY <1>3, <1>4 DEF IInv, TypeOK, AnsweredOnce, Answers, Src
<1>6. p \in Seq(Req) /\ InOrder(p, L, A, H, a, b)
  BY <1>2, <1>3 DEF AnswersInOrder
<1>7. InOrder(p, L, A, H, d, c)
  <2>1. CASE s # "conn"
    <3>1. d = a /\ c = b
      BY <1>3, <2>1 DEF Answer, Call, books, IInv, TypeOK, Src
    <3> QED BY <1>6, <3>1
  <2>2. CASE s = "conn" /\ Call(s)
    <3>1. d = a /\ Appended(b, Other, c)
      BY <1>3, <2>2 DEF Call, books, IInv, TypeOK, Appended
    <3>2. Other \in S /\ Other \notin ToSet(p)
      <4>1. ToSet(p) \subseteq Req
        BY <1>6, Members
      <4> QED BY <1>4, <4>1, RequestsAssumption
    <3> QED BY <1>5, <1>6, <3>1, <3>2, OrderAnswered
  <2>3. CASE s = "conn" /\ Answer(s)
    <3>1. /\ 1 \in 1 .. Len(a) /\ Appended(b, a[1], c) /\ d = RemoveAt(a, 1)
      BY <1>3, <2>3 DEF Answer, IInv, TypeOK, Appended
    <3>2. PICK x : x = a[1]
      OBVIOUS
    <3>3. x \in Req /\ x \in S
      BY <1>4, <1>5, <3>1, <3>2
    <3>4. /\ d \in Seq(Req) /\ Len(d) = Len(a) - 1
          /\ \A j \in 1 .. Len(a) - 1 : d[j] = IF j < 1 THEN a[j] ELSE a[j + 1]
      BY <1>5, <3>1, RemoveAtList
    <3>5. Len(a) \in Nat
      BY <1>5
    <3>6. /\ d \in Seq(Req) /\ Len(a) = Len(d) + 1 /\ a[1] = x
          /\ \A j \in 1 .. Len(d) : a[j + 1] = d[j]
      BY <3>2, <3>4, <3>5
    <3>7. ToSet(a) = ToSet(d) \cup {x}
      BY <1>5, <3>3, <3>6, InFrontMembers
    <3>8. \A y, z : Precedes(a, y, z) <=> Precedes(d, y, z) \/ (y = x /\ z \in ToSet(d))
      BY <1>5, <3>3, <3>6, InFrontMembers
    <3>9. x \notin ToSet(d)
      BY <1>5, <3>1, <3>2, RemoveAtMembers
    <3>10. Appended(b, x, c)
      BY <3>1, <3>2
    <3> QED BY <1>5, <1>6, <3>3, <3>7, <3>8, <3>9, <3>10, OrderAnswered
  <2> QED BY <2>1, <2>2, <2>3
<1> QED BY <1>2, <1>3, <1>7 DEF AnswersInOrder

\* Why the response to r was thrown away.
DropReason(r) ==
    via[r] = "conn" =>
       \E q \in ToSet(pending) :
          /\ Before(q, r)
          /\ mode[q] = "sync" \/ q \in lost \cup Handling \/ via[q] = "extra"

\* The response h at the front of the messages of the renderer is thrown away
\* though h is pending: the first request of the list is the reason.
LEMMA DropHasReason ==
    ASSUME IInv, AnswersInOrder, NEW h \in Req, inbox["conn"] # <<>>,
           h = Head(inbox["conn"]), h \in ToSet(pending), ~ Matches(h)
    PROVE  DropReason(h)
<1>1. PICK p, a, b :
         /\ p \in Seq(Req) /\ p = pending /\ a = asked["conn"]
         /\ b = inbox["conn"] /\ b \in Seq(Req \cup {Other})
  BY DEF IInv, TypeOK, Src
<1>2. p \in Seq(Req) /\ h \in ToSet(p)
  BY <1>1
<1>3. PICK k \in 1 .. Len(p) : p[k] = h
  BY <1>2, Members
<1>4. p # <<>> /\ Len(p) \in Nat /\ 1 \in 1 .. Len(p) /\ Head(p) = p[1]
  BY <1>2, <1>3, EmptySeq
<1>5. PICK q : q = p[1]
  OBVIOUS
<1>6. q # h
  BY <1>1, <1>4, <1>5 DEF Matches
<1>7. Precedes(p, q, h)
  BY <1>3, <1>4, <1>5, <1>6 DEF Precedes
<1>8. q \in Req /\ q \in ToSet(p)
  BY <1>2, <1>4, <1>5, Members
<1>9. Before(q, h)
  BY <1>1, <1>7, BeforeIs
<1>10. ASSUME mode[q] # "sync", q \notin lost, q \notin Handling, via[q] # "extra"
       PROVE  FALSE
  <2>1. mode[q] = "async" /\ via[q] = "conn"
    <3>1. mode[q] # "no"
      BY <1>1, <1>8 DEF IInv, UnsentBlank
    <3> QED BY <1>8, <1>10, <3>1 DEF IInv, TypeOK, Src
  <2>2. mode[h] # "sync"
    <3> SUFFICES ASSUME mode[h] = "sync" PROVE FALSE
      OBVIOUS
    <3>1. \E i \in Waits : stack[i].req = h
      BY DEF IInv, ContextsLive
    <3> QED BY <1>1, <1>8, <1>9, <1>10, <3>1 DEF IInv, InnermostFirst
  <2>3. mode[h] = "async" /\ via[h] = "conn"
    <3>1. h \in ToSet(b) /\ h # Other
      <4>1. PICK S : S = Req \cup {Other} /\ b \in Seq(S) /\ b # <<>>
        BY <1>1
      <4>2. Head(b) \in ToSet(b)
        BY <4>1, TailMembers
      <4> QED BY <1>1, <4>2, RequestsAssumption
    <3>2. mode[h] # "no" /\ via[h] = "conn"
      BY <1>1, <3>1 DEF IInv, AnsweredOnce, Answers, Src
    <3> QED BY <2>2, <3>2 DEF IInv, TypeOK
  <2>4. InOrder(p, lost, Queued, Handling, a, b)
    BY <1>1 DEF AnswersInOrder
  <2>5. q \in Queued /\ h \in Queued
    BY <1>8, <2>1, <2>3 DEF Queued
  <2>6. q \in ToSet(a) \/ q \in ToSet(b)
    BY <1>8, <1>10, <2>4, <2>5 DEF InOrder
  <2>7. h \in ToSet(b) /\ (q \in ToSet(b) => Precedes(b, h, q))
    <3>1. PICK S : S = Req \cup {Other}
      OBVIOUS
    <3>2. b \in Seq(S) /\ b # <<>> /\ h = Head(b)
      BY <1>1, <3>1
    <3>3. /\ 1 \in 1 .. Len(b) /\ Len(b) \in Nat /\ h = b[1]
      BY <3>2, EmptySeq
    <3>4. \A x : x \in ToSet(b) <=> \E i \in 1 .. Len(b) : b[i] = x
      BY <3>2, Members
    <3>5. h \in ToSet(b)
      BY <3>3, <3>4
    <3>6. ASSUME q \in ToSet(b) PROVE Precedes(b, h, q)
      <4>1. PICK i \in 1 .. Len(b) : b[i] = q
        BY <3>4, <3>6
      <4>2. i # 1 /\ 1 < i
        BY <1>6, <3>3, <4>1
      <4> QED BY <3>3, <4>1, <4>2 DEF Precedes
    <3> QED BY <3>5, <3>6
  <2> QED BY <1>7, <2>4, <2>5, <2>6, <2>7 DEF InOrder
<1> QED BY <1>1, <1>8, <1>9, <1>10 DEF DropReason

\* Calls that go on or return: what is handled, but for what leaves the list.
LEMMA HandlingStays ==
    ASSUME stack \in Seq(Frames), stack # <<>>, NEW R,
           (\E p \in Points : stack' = At(p)) \/ stack' = Pop,
           stack' = Pop /\ Top.op = "response" => Top.req \in R
    PROVE  Doing("response", stack) \ R \subseteq Doing("response", stack')
<1>1. CASE \E p \in Points : stack' = At(p)
  <2>1. PICK u \in Seq(Frames), v \in Seq(Frames) :
           u = stack /\ v = stack' /\ SameCalls(u, v)
    BY <1>1, AtCalls
  <2>2. Doing("response", v) = Doing("response", u)
    BY <2>1, SameDoing
  <2> QED BY <2>1, <2>2
<1>2. CASE stack' = Pop
  <2>1. /\ stack' \in Seq(Frames) /\ Returned(stack, stack')
        /\ Top = stack[Len(stack)]
    BY <1>2, PopCalls
  <2>2. /\ "response" # stack[Len(stack)].op =>
              Doing("response", stack') = Doing("response", stack)
        /\ "response" = stack[Len(stack)].op =>
              Doing("response", stack) = Doing("response", stack') \cup {stack[Len(stack)].req}
    BY <2>1, ReturnedDoing
  <2> QED BY <1>2, <2>1, <2>2
<1> QED BY <1>1, <1>2

DropsExplained == \A r \in lost' \ lost : DropReason(r)

LEMMA DispatchExplained ==
    ASSUME IInv, AnswersInOrder, NEW s \in Src, NEW p \in Points, stack # <<>>,
           dispatch_message(s, p), UNCHANGED <<books, link>>
    PROVE  AnswersInOrder' /\ DropsExplained
<1>1. AnswersInOrder'
  BY DispatchInOrder
<1>2. ASSUME NEW r \in lost' \ lost, via[r] = "conn"
      PROVE  DropReason(r)
  <2>1. PICK h : h = Head(inbox[s])
    OBVIOUS
  <2>2. /\ inbox[s] \in Seq(Req \cup {Other}) /\ inbox[s] # <<>>
        /\ pending \in Seq(Req)
    BY DEF IInv, TypeOK, dispatch_message
  <2>3. h # Other /\ handle_response_message(h, p)
    BY <1>2, <2>1 DEF dispatch_message, list
  <2>4. ~ Matches(h) /\ ThrowAway(h)
    BY <1>2, <2>3 DEF handle_response_message, Unlink, list
  <2>5. r = h /\ h \in ToSet(pending)
    BY <1>2, <2>4 DEF ThrowAway
  <2>6. h \in Req
    <3>1. ToSet(pending) \subseteq Req
      BY <2>2, Members
    <3> QED BY <2>5, <3>1
  <2>7. s = "conn"
    <3>1. PICK S, b : S = Req \cup {Other} /\ b = inbox[s] /\ b \in Seq(S) /\ b # <<>>
      BY <2>2
    <3>2. Head(b) \in ToSet(b)
      BY <3>1, TailMembers
    <3>3. h \in ToSet(inbox[s])
      BY <2>1, <3>1, <3>2
    <3> QED BY <1>2, <2>3, <2>5, <3>3 DEF IInv, AnsweredOnce, Answers
  <2> QED BY <2>1, <2>2, <2>4, <2>5, <2>6, <2>7, DropHasReason
<1> QED BY <1>1, <1>2 DEF DropsExplained, DropReason

LEMMA DisconnectInOrder ==
    ASSUME IInv, pcrdr_disconnect
    PROVE  AnswersInOrder' /\ DropsExplained
<1>1. PICK R : R = ToSet(pending)
  OBVIOUS
<1>2. Unlink(R) /\ pending \in Seq(Req)
  BY <1>1 DEF pcrdr_disconnect, IInv, TypeOK
<1>3. pending' \in Seq(Req) /\ Fewer(pending, pending', R) /\ lost' = lost \ R
  BY <1>2, UnlinkFewer
<1>4. ToSet(pending') = {}
  BY <1>1, <1>3 DEF Fewer
<1>5. \A x, y : ~ Precedes(pending', x, y)
  BY <1>3, <1>4, PrecedesMembers
<1>6. AnswersInOrder'
  BY <1>4, <1>5 DEF AnswersInOrder, InOrder
<1> QED BY <1>3, <1>6 DEF DropsExplained

LEMMA ThreadExplained ==
    ASSUME IInv, AnswersInOrder, Thread
    PROVE  AnswersInOrder' /\ DropsExplained
<1>1. /\ stack \in Seq(Frames) /\ pending \in Seq(Req)
      /\ stack # <<>> /\ mode' = mode /\ via' = via /\ asked' = asked /\ link' = link
  BY DEF IInv, TypeOK, Thread, Source, Read, Again, Look, check_timeout_requests,
         HandlerReturns, books
<1>2. ASSUME NEW R, Fewer(pending, pending', R), lost' = lost \ R, inbox' = inbox,
             (\E p \in Points : stack' = At(p)) \/ stack' = Pop,
             stack' = Pop /\ Top.op = "response" => Top.req \in R
      PROVE  AnswersInOrder' /\ DropsExplained
  <2>1. Doing("response", stack) \ R \subseteq Doing("response", stack')
    BY <1>1, <1>2, HandlingStays
  <2>2. AnswersInOrder' /\ lost' \ lost = {}
    BY <1>1, <1>2, <2>1, InOrderKept
  <2> QED BY <2>2 DEF DropsExplained
<1>3. ASSUME NEW p \in Points, stack' = At(p), UNCHANGED list, inbox' = inbox,
             Top.op # "response"
      PROVE  AnswersInOrder' /\ DropsExplained
  <2>1. Fewer(pending, pending', {}) /\ lost' = lost \ {}
    BY <1>3, SameFewer DEF list
  <2> QED BY <1>2, <1>3, <2>1
<1>4. ASSUME NEW here \in Points, NEW next \in Points, Look(here, next)
      PROVE  AnswersInOrder' /\ DropsExplained
  <2>1. CASE dispatch_message("extra", next)
    BY <1>1, <1>4, <2>1, DispatchExplained DEF Look, Src
  <2>2. CASE inbox["extra"] = <<>> /\ stack' = At(next)
              /\ UNCHANGED <<list, inbox, slot, outcome>>
    <3>1. UNCHANGED list /\ inbox' = inbox /\ Top.op # "response"
      BY <1>4, <2>2 DEF Look
    <3> QED BY <1>3, <2>2, <3>1
  <2> QED BY <1>4, <2>1, <2>2 DEF Look
<1>5. CASE Source \/ Again
  BY <1>4, <1>5 DEF Source, Again, Points
<1>6. CASE Read
  <2>1. CASE dispatch_message("conn", "again")
    BY <1>1, <1>6, <2>1, DispatchExplained DEF Read, Src, Points
  <2>2. CASE stack' = At("check") /\ UNCHANGED <<list, inbox, slot, outcome>>
    <3>1. UNCHANGED list /\ inbox' = inbox /\ Top.op # "response" /\ "check" \in Points
      BY <1>6, <2>2 DEF Read, Points
    <3> QED BY <1>3, <2>2, <3>1
  <2>3. CASE /\ Top.op = "wait" /\ GiveUp(Top.req) /\ stack' = Pop
             /\ UNCHANGED <<inbox, slot>>
    <3>1. CASE Unlink({Top.req})
      <4>1. Fewer(pending, pending', {Top.req}) /\ lost' = lost \ {Top.req}
        BY <1>1, <3>1, UnlinkFewer
      <4> QED BY <1>2, <2>3, <4>1
    <3>2. CASE UNCHANGED list
      <4>1. Fewer(pending, pending', {}) /\ lost' = lost \ {}
        BY <3>2, SameFewer DEF list
      <4> QED BY <1>2, <2>3, <4>1
    <3> QED BY <2>3, <3>1, <3>2 DEF GiveUp
  <2> QED BY <1>6, <2>1, <2>2, <2>3 DEF Read
<1>7. CASE check_timeout_requests
  <2>1. /\ Top.op # "response" /\ Unlink(Overdue) /\ inbox' = inbox
        /\ stack' = At("source") \/ stack' = Pop
    BY <1>7 DEF check_timeout_requests
  <2>2. Fewer(pending, pending', Overdue) /\ lost' = lost \ Overdue
    BY <1>1, <2>1, UnlinkFewer
  <2> QED BY <1>2, <2>1, <2>2 DEF Points
<1>8. CASE HandlerReturns
  <2>1. PICK R : R = IF Top.op = "response" THEN {Top.req} ELSE {}
    OBVIOUS
  <2>2. Unlink(R) /\ stack' = Pop /\ inbox' = inbox
    BY <1>8, <2>1 DEF HandlerReturns
  <2>3. Fewer(pending, pending', R) /\ lost' = lost \ R
    BY <1>1, <2>2, UnlinkFewer
  <2>4. Top.op = "response" => Top.req \in R
    BY <2>1
  <2> QED BY <1>2, <2>2, <2>3, <2>4
<1> QED BY <1>5, <1>6, <1>7, <1>8 DEF Thread

LEMMA OthersExplained ==
    ASSUME IInv, AnswersInOrder, pending' = pending, lost' = lost,
           \A r \in Req : r \in ToSet(pending) => mode'[r] = mode[r] /\ via'[r] = via[r],
           asked' = asked, inbox' = inbox,
           Doing("response", stack') = Doing("response", stack)
    PROVE  AnswersInOrder' /\ DropsExplained
<1>1. Fewer(pending, pending', {}) /\ lost' = lost \ {}
  BY SameFewer
<1>2. AnswersInOrder' /\ lost' \ lost = {}
  BY <1>1, InOrderKept
<1> QED BY <1>2 DEF DropsExplained

LEMMA StepsExplained ==
    ASSUME IInv, IInv', AnswersInOrder, [Next]_vars
    PROVE  AnswersInOrder' /\ DropsExplained
<1>1. CASE Thread
  BY <1>1, ThreadExplained
<1>2. CASE Sending
  <2>1. PICK r \in Req : \/ \E s \in Src : \/ pcrdr_send_request(r, s)
                                         \/ pcrdr_send_request_and_wait_response(r, s)
                         \/ \E how \in {"async", "sync"} : send_fails(r, how)
    BY <1>2 DEF Sending
  <2>2. ASSUME NEW s \in Src, pcrdr_send_request(r, s)
        PROVE  AnswersInOrder' /\ DropsExplained
    <3>1. /\ Dispatched(r, s, "async") /\ pending' = Append(pending, r)
          /\ stack' = stack /\ lost' = lost /\ inbox' = inbox
      BY <2>2 DEF pcrdr_send_request
    <3> QED BY <3>1, SendsInOrder DEF DropsExplained
  <2>3. ASSUME NEW s \in Src, pcrdr_send_request_and_wait_response(r, s)
        PROVE  AnswersInOrder' /\ DropsExplained
    <3>1. /\ Dispatched(r, s, "sync") /\ pending' = <<r>> \o pending
          /\ stack' = Append(stack, Frame("wait", r)) /\ lost' = lost /\ inbox' = inbox
      BY <2>3 DEF pcrdr_send_request_and_wait_response
    <3> QED BY <3>1, SendsInOrder DEF DropsExplained
  <2>4. ASSUME NEW how \in {"async", "sync"}, send_fails(r, how)
        PROVE  AnswersInOrder' /\ DropsExplained
    <3>1. /\ mode[r] = "no" /\ mode' = [mode EXCEPT ![r] = how]
          /\ pending' = pending /\ lost' = lost /\ via' = via /\ asked' = asked
          /\ inbox' = inbox /\ stack' = stack
      BY <2>4 DEF send_fails, list
    <3>2. r \notin ToSet(pending)
      BY <3>1 DEF IInv, UnsentBlank
    <3>3. \A q \in Req : q \in ToSet(pending) => mode'[q] = mode[q] /\ via'[q] = via[q]
      BY <3>1, <3>2 DEF IInv, TypeOK
    <3> QED BY <3>1, <3>3, OthersExplained
  <2> QED BY <2>1, <2>2, <2>3, <2>4
<1>3. CASE pcrdr_wait_and_dispatch_message
  <2>1. /\ stack = <<>> /\ stack' = <<Frame("poll", Other)>>
        /\ pending' = pending /\ lost' = lost /\ mode' = mode /\ via' = via
        /\ asked' = asked /\ inbox' = inbox
    BY <1>3 DEF pcrdr_wait_and_dispatch_message, list, books
  <2>2. Doing("response", stack) = {}
    BY <2>1 DEF Doing
  <2>3. Doing("response", stack') = {}
    <3>1. \A f : Len(<<f>>) = 1 /\ <<f>>[1] = f
      OBVIOUS
    <3>2. Len(stack') = 1 /\ stack'[1].op = "poll"
      BY <2>1, <3>1, FrameTyped
    <3> QED BY <3>2 DEF Doing
  <2> QED BY <2>1, <2>2, <2>3, OthersExplained
<1>4. CASE pcrdr_disconnect
  BY <1>4, DisconnectInOrder
<1>5. CASE \E s \in Src : Answer(s) \/ Call(s)
  <2>1. lost' = lost
    BY <1>5 DEF Answer, Call, list
  <2> QED BY <1>5, <2>1, PeerInOrder DEF DropsExplained
<1>6. CASE PeerGone \/ (\E r \in Req : Tick(r)) \/ UNCHANGED vars
  <2>1. /\ pending' = pending /\ lost' = lost /\ mode' = mode /\ via' = via
        /\ asked' = asked /\ inbox' = inbox /\ stack' = stack
    BY <1>6 DEF PeerGone, Tick, vars, list, books
  <2> QED BY <2>1, OthersExplained
<1> QED BY <1>1, <1>2, <1>3, <1>4, <1>5, <1>6 DEF Next

LEMMA InOrderInit == Init => AnswersInOrder
<1> SUFFICES ASSUME Init PROVE AnswersInOrder
  OBVIOUS
<1>1. pending = <<>> /\ ToSet(pending) = {}
  BY EmptyMembers DEF Init
<1>2. \A x, y : ~ Precedes(pending, x, y)
  BY <1>1 DEF Precedes
<1> QED BY <1>1, <1>2 DEF AnswersInOrder, InOrder

LEMMA InOrderHolds == Spec => []AnswersInOrder
<1>1. IInv /\ IInv' /\ AnswersInOrder /\ [Next]_vars => AnswersInOrder'
  BY StepsExplained
<1> QED BY <1>1, InOrderInit, IInvHolds, PTL DEF Spec

-----------------------------------------------------------------------------
(* Theorems. *)

\* The list of pending requests, the calls in progress, the slots and the
\* outcomes keep their types, whatever a connection of connect.c goes through.
THEOREM RequestsTyped == Spec => []TypeOK
<1>1. IInv => TypeOK
  BY DEF IInv
<1> QED BY <1>1, IInvHolds, PTL

\* However waits, handlers, deadlines and late answers interleave, the context
\* of a synchronous request is in pending_requests exactly while the call of
\* pcrdr_send_request_and_wait_response whose variable it is goes on without an
\* answer, and list_del never meets a request that is in the list twice.
THEOREM ContextsSafe == Spec => []ContextsLive
<1>1. IInv => ContextsLive
  BY DEF IInv
<1> QED BY <1>1, IInvHolds, PTL

\* Nested waits lie in pending_requests innermost first and in front of all
\* older asynchronous requests, so that handle_response_message, which looks at
\* the first request only, can find the response the innermost call waits for.
THEOREM InnermostWaitFirst == Spec => []InnermostFirst
<1>1. IInv => InnermostFirst
  BY DEF IInv
<1> QED BY <1>1, IInvHolds, PTL

\* Whatever the deadlines, nested waits and failures, a response of the renderer
\* that handle_response_message throws away while its request is pending has a
\* reason: the first request of pending_requests is awaited, handled, answered
\* by another instance or has lost its own response.  A list of asynchronous
\* requests to the renderer alone, none of them being handled, never begins to
\* lose responses.
THEOREM ResponsesDropForAReason == Spec => DropExplained
<1>1. IInv /\ IInv' /\ AnswersInOrder /\ [Next]_vars =>
         [\A r \in lost' \ lost : via[r] = "conn" =>
             \E q \in ToSet(pending) :
                /\ Before(q, r)
                /\ mode[q] = "sync" \/ q \in lost \cup Handling \/ via[q] = "extra"]_vars
  BY StepsExplained DEF DropsExplained, DropReason
<1> QED BY <1>1, IInvHolds, InOrderHolds, PTL DEF Spec, DropExplained

LEMMA ToldInit == Init => Promise!OutcomeInit
<1> SUFFICES ASSUME Init PROVE Promise!OutcomeInit
  OBVIOUS
<1>1. Handling = {}
  BY DEF Init, Handling
<1> QED BY <1>1 DEF Init, Told, Promise!OutcomeInit, Promise!NotSent

LEMMA ToldNext ==
    ASSUME IInv, IInv', TellsOnce
    PROVE  Promise!OutcomeNext
<1>1. /\ outcome \in [Req -> Endings \cup {"none"}]
      /\ outcome' \in [Req -> Endings \cup {"none"}]
      /\ mode' \in [Req -> {"no", "async", "sync"}]
  BY DEF IInv, TypeOK
<1>2. Told' \in [Req -> Endings \cup {"not sent", "waiting"}]
  BY <1>1 DEF Told
<1>3. ASSUME NEW r \in Req
      PROVE  /\ Told[r] = IF mode[r] = "no" THEN "not sent"
                          ELSE IF outcome[r] = "none" THEN "waiting" ELSE outcome[r]
             /\ Told'[r] = IF mode'[r] = "no" THEN "not sent"
                           ELSE IF outcome'[r] = "none" THEN "waiting" ELSE outcome'[r]
  BY <1>3 DEF Told
<1>4. ASSUME NEW r \in Req PROVE Promise!Advance(r)
  <2>1. Progress(r) /\ "none" \notin Endings
    BY <1>4 DEF TellsOnce, Endings
  <2>2. outcome'[r] \in Endings \cup {"none"}
    BY <1>1, <1>4
  <2>3. r \in Doing("response", stack) => r \in Handling
    BY HandlingIs
  <2> QED BY <1>3, <1>4, <2>1, <2>2, <2>3
        DEF Progress, Promise!Advance, Promise!NotSent, Promise!Waiting
<1>5. Handling' \subseteq Req
  <2>1. \A i \in 1 .. Len(stack') : stack'[i].op = "response" => stack'[i].req \in Req
    BY DEF IInv, FramesSound, Serves
  <2> QED BY <2>1 DEF Handling
<1>6. ASSUME NEW r \in Handling' \ Handling PROVE Promise!Begins(r)
  <2>1. r \in Req
    BY <1>5, <1>6
  <2>2. Begun(r)
    BY <2>1 DEF TellsOnce
  <2>3. mode[r] # "no" /\ mode'[r] = mode[r] /\ outcome[r] = "none" /\ outcome'[r] = "result"
    BY <1>6, <2>2, HandlingIs DEF Begun
  <2>4. Told[r] = "waiting" /\ Told'[r] = "result"
    BY <1>3, <2>1, <2>3
  <2> QED BY <2>4 DEF Promise!Begins, Promise!Waiting
<1> QED BY <1>2, <1>4, <1>5, <1>6 DEF Promise!OutcomeNext, Promise!NotSent, Promise!Waiting

\* With nested waits, late answers, deadlines, failures and the loss of the
\* peer, a connection implements RequestOutcome: what a request came to is told
\* to its sender at most once, and does not change once no handler is at work
\* on it.
THEOREM OutcomeToldOnce == Spec => ImplementsOutcome
<1>1. IInv /\ IInv' /\ OutcomesTold /\ [Next]_vars => [Promise!OutcomeNext]_<<Told, Handling>>
  BY TellsNext, ToldNext
<1> QED BY <1>1, ToldInit, IInvHolds, OutcomesToldHolds, PTL
        DEF Spec, ImplementsOutcome, Promise!OutcomeSpec

=============================================================================
