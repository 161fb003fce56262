---------------------------- MODULE SessionProofs ----------------------------
(***************************************************************************)
(* Proofs about Session, for any set of workers and of requests and any     *)
(* bounds: every request is answered once, the runtime outlives whatever    *)
(* calls into it, and nothing is left behind.                               *)
(*                                                                         *)
(* None of the three is inductive. What carries them is how far the owner   *)
(* is: which of libfuse's parts exist at each of its steps (Stages), that   *)
(* workers are busy only while it is in the loop, how many replies a worker *)
(* has sent at each of its own (Answers), and that a call of init or of     *)
(* destroy that libfuse has noted and the filesystem has not seen yet is in *)
(* the hands of one worker (Calls).                                         *)
(***************************************************************************)
EXTENDS Session, TLAPS

Owners == {"new", "mount", "run", "config", "loop", "remove", "unmount", "destroy", "free",
           "over", "aborted"}

Places == {"idle", "init", "destroy", "shim", "call", "reply", "rollback", "leave", "done"}

Replies == {"none", "err"} \cup UNION {GoodReplies[s] : s \in DOMAIN GoodReplies}

Work == [pc : Places, shim : DOMAIN GoodReplies \cup {"none"}, reply : Replies, replies : Nat,
         retained : Nat, stale : BOOLEAN]

Types ==
    /\ owner \in Owners
    /\ multi \in BOOLEAN /\ exited \in BOOLEAN
    /\ lib \in [session : BOOLEAN, mounted : BOOLEAN, handlers : BOOLEAN, config : BOOLEAN,
                init : BOOLEAN, destroy : BOOLEAN]
    /\ runtime \in {"none", "live", "freed"}
    /\ work \in [Workers -> Work]
    /\ served \in Nat
    /\ told \in [init : Nat, destroy : Nat]

\* What exists at each step of the owner.
Stages ==
    /\ owner = "new" => lib = Nothing /\ runtime = "none"
    /\ owner \in {"mount", "run", "config", "loop", "remove", "unmount", "destroy", "aborted"}
           => lib.session /\ runtime = "live"
    /\ owner \in {"free", "over"} => ~lib.session /\ ~lib.mounted
    /\ owner = "free" => runtime = "live"
    /\ owner = "over" => runtime # "live"
    /\ owner = "destroy" => ~lib.mounted
    /\ lib.handlers => owner \in {"config", "loop", "remove", "aborted"}
    /\ lib.config => owner \in {"loop", "aborted"}
    /\ owner \notin {"loop", "aborted"} => IdleWorkers

\* How many replies a worker has sent at each of its steps.
Answers ==
    \A w \in Workers :
        /\ work[w].pc = "idle" => work[w] = Idle
        /\ work[w].pc \in {"init", "destroy", "shim", "call", "reply"} => work[w].replies = 0
        /\ work[w].pc \in {"rollback", "leave", "done"} => work[w].replies = 1
        /\ work[w].pc \in {"shim", "call"} => work[w].shim \in DOMAIN GoodReplies

\* Which of init and destroy libfuse has noted, and the filesystem been told.
Calls ==
    /\ told.init \in {0, 1} /\ told.destroy \in {0, 1}
    /\ told.init = 1 => lib.init
    /\ lib.init /\ told.init = 0 => \E w \in Workers : work[w].pc = "init"
    /\ lib.destroy => told.init = 1
    /\ lib.destroy /\ told.destroy = 0 => \E w \in Workers : work[w].pc = "destroy"
    /\ told.destroy = 1 => lib.destroy \/ owner \in {"free", "over"}
    /\ owner \in {"free", "over"} => told.destroy = told.init
    /\ \A w \in Workers :
           /\ work[w].pc = "init" => lib.init /\ told.init = 0
           /\ work[w].pc = "destroy" => lib.destroy /\ told.destroy = 0
    /\ \A v, w \in Workers :
           /\ work[v].pc = "init" /\ work[w].pc = "init" => v = w
           /\ work[v].pc = "destroy" /\ work[w].pc = "destroy" => v = w

IInv == Types /\ Stages /\ Answers /\ Calls

------------------------------------------------------------------------------
\* The state a session starts in satisfies the invariant.
LEMMA InitIInv == Init => IInv
<1> SUFFICES ASSUME Init PROVE IInv
    OBVIOUS
<1>1. Types
    BY Zenon DEF Init, Types, Owners, Nothing, Idle, Work, Places, Replies
<1>2. Stages
    BY DEF Init, Stages, IdleWorkers, Nothing
<1>3. Answers
    BY Zenon DEF Init, Answers, Idle
<1>4. Calls
    BY DEF Init, Calls, Idle, Nothing
<1> QED
    BY <1>1, <1>2, <1>3, <1>4 DEF IInv

\* Every step of the owner, of the loop's end and of an exit keeps the
\* invariant: the workers are not touched.
LEMMA OwnerKeeps ==
    ASSUME IInv, OwnerStep \/ LoopEnds \/ AskToExit
    PROVE  IInv'
<1> USE DEF IInv
<1>1. Types'
  <2>1. CASE Destroy
    <3>1. /\ owner' = "free"
          /\ lib' = [lib EXCEPT !.session = FALSE]
          /\ UNCHANGED <<multi, runtime, exited, work, served>>
      BY <2>1 DEF Destroy
    <3>2. told' \in [init : Nat, destroy : Nat]
      BY <2>1 DEF Destroy, Types
    <3> QED
      BY <3>1, <3>2, Zenon DEF Types, Owners
  <2>2. CASE NewRefused \/ NewFails \/ New \/ Free \/ AskToExit
    BY <2>2, Zenon DEF Types, Owners, NewRefused, NewFails, New, Free, AskToExit
  <2>3. CASE Mount \/ SetHandlers
    BY <2>3, Zenon DEF Types, Owners, Mount, SetHandlers
  <2>4. CASE MakeConfig \/ RemoveHandlers \/ Unmount \/ LoopEnds
    BY <2>4, Zenon DEF Types, Owners, MakeConfig, ConfigFails, RemoveHandlers, Unmount, LoopEnds
  <2> QED
    BY <2>1, <2>2, <2>3, <2>4 DEF OwnerStep
<1>2. Stages'
    BY DEF Types, Stages, OwnerStep, NewRefused, NewFails, New, Mount, SetHandlers, MakeConfig,
           ConfigFails, RemoveHandlers, Unmount, Destroy, Free, LoopEnds, AskToExit, IdleWorkers,
           Nothing
<1>3. work' = work
    BY DEF OwnerStep, NewRefused, NewFails, New, Mount, SetHandlers, MakeConfig, RemoveHandlers,
           Unmount, Destroy, Free, LoopEnds, AskToExit
<1>4. Answers'
    BY <1>3 DEF Answers, Idle
<1>5. Calls'
  <2>1. CASE Destroy
    BY <2>1, <1>3 DEF Types, Calls, Stages, Destroy, IdleWorkers, Idle
  <2>2. CASE NewRefused \/ NewFails \/ New
    BY <2>2, <1>3 DEF Types, Calls, Stages, NewRefused, NewFails, New, Nothing, IdleWorkers, Idle
  <2>3. CASE Mount \/ SetHandlers \/ MakeConfig \/ RemoveHandlers \/ Unmount \/ Free
             \/ LoopEnds \/ AskToExit
    BY <2>3, <1>3 DEF Types, Calls, Mount, SetHandlers, MakeConfig, ConfigFails, RemoveHandlers,
                      Unmount, Free, LoopEnds, AskToExit
  <2> QED
    BY <2>1, <2>2, <2>3 DEF OwnerStep
<1> QED
    BY <1>1, <1>2, <1>4, <1>5

\* What a worker may be doing, one worker at a time.
Answered(r) ==
    /\ r.pc = "idle" => r = Idle
    /\ r.pc \in {"init", "destroy", "shim", "call", "reply"} => r.replies = 0
    /\ r.pc \in {"rollback", "leave", "done"} => r.replies = 1
    /\ r.pc \in {"shim", "call"} => r.shim \in DOMAIN GoodReplies

\* A worker that goes from one place inside a request to another, or to the
\* loop or from it, touches nothing of the owner's.
LEMMA MoveKeeps ==
    ASSUME IInv, NEW w \in Workers, NEW r \in Work, Answered(r),
           owner = "loop",
           work[w].pc \notin {"init", "destroy"}, r.pc \notin {"init", "destroy"},
           Goes(w, r), UNCHANGED <<owner, multi, lib, runtime, exited, told>>, served' \in Nat
    PROVE  IInv'
<1> USE DEF IInv
<1>1. work' \in [Workers -> Work] /\ work'[w] = r /\ \A v \in Workers \ {w} : work'[v] = work[v]
    BY DEF Types, Goes
<1>2. Types'
    BY <1>1 DEF Types
<1>3. Stages'
    BY DEF Stages
<1>4. Answers'
    BY <1>1 DEF Answers, Answered
<1>5. Calls'
  <2>1. \A v \in Workers : work'[v].pc = "init" <=> work[v].pc = "init"
    BY <1>1
  <2>2. \A v \in Workers : work'[v].pc = "destroy" <=> work[v].pc = "destroy"
    BY <1>1
  <2> QED
    BY <2>1, <2>2 DEF Calls
<1> QED
    BY <1>2, <1>3, <1>4, <1>5

\* A worker in a request runs while the owner is in the loop.
LEMMA BusyInLoop ==
    ASSUME IInv, ~Aborted, NEW w \in Workers, work[w].pc # "idle"
    PROVE  owner = "loop"
BY DEF IInv, Stages, IdleWorkers, Idle, Aborted

\* What a trampoline sends is a reply.
LEMMA OutcomeType ==
    ASSUME NEW s \in DOMAIN GoodReplies, NEW result \in {"ok", "err", "panic"}
    PROVE  Outcome(s, result) \subseteq Replies
BY DEF Outcome, Replies

\* An idle worker has sent nothing.
LEMMA IdleWork == Idle \in Work /\ Answered(Idle) /\ Idle.pc = "idle" /\ Idle.replies = 0
BY DEF Idle, Work, Places, Replies, Answered

\* A first reply is the only one.
LEMMA RepliedOnce ==
    ASSUME NEW r \in Work, r.replies = 0, NEW reply \in Replies,
           NEW pc \in {"leave", "done", "rollback"}
    PROVE  LET q == Replied(r, reply, pc)
           IN  q \in Work /\ Answered(q) /\ q.pc = pc
<1> DEFINE q == Replied(r, reply, pc)
<1>1. q = [r EXCEPT !.replies = 1, !.reply = reply, !.pc = pc]
    BY DEF Replied, Work
<1> HIDE DEF q
<1>2. q \in Work
  <2>1. pc \in Places
    BY DEF Places
  <2> QED
    BY <1>1, <2>1, Zenon DEF Work
<1>3. q.pc = pc /\ q.replies = 1
    BY <1>1 DEF Work
<1>4. Answered(q)
    BY <1>3 DEF Answered
<1> QED
    BY <1>2, <1>3, <1>4, Zenon DEF q

\* The steps of a worker inside a request keep the invariant.
LEMMA RequestKeeps ==
    ASSUME IInv, ~Aborted, NEW w \in Workers,
           Decode(w) \/ CallEnds(w) \/ Reply(w) \/ Leave(w) \/ Return(w)
    PROVE  IInv'
<1> DEFINE r == work[w]
<1>1. r \in Work /\ Answered(r) /\ served \in Nat
    BY DEF IInv, Types, Answers, Answered
<1>2. owner = "loop"
  <2>1. r.pc # "idle"
    BY Zenon DEF Decode, CallEnds, Reply, Leave, Return
  <2> QED
    BY <2>1, BusyInLoop
<1>3. r.pc \notin {"init", "destroy"}
    BY Zenon DEF Decode, CallEnds, Reply, Leave, Return
<1>4. UNCHANGED <<owner, multi, lib, runtime, exited, served, told>>
    BY Zenon DEF Decode, CallEnds, Reply, Leave, Return
<1>5. ASSUME NEW q \in Work, Answered(q), q.pc \notin {"init", "destroy"}, Goes(w, q)
      PROVE  IInv'
    BY <1>1, <1>2, <1>3, <1>4, <1>5, MoveKeeps
<1>6. "err" \in Replies
    BY DEF Replies
<1>7. CASE Decode(w)
  <2>1. r.pc = "shim"
    BY <1>7 DEF Decode
  <2>2. CASE Goes(w, [r EXCEPT !.pc = "call"])
    <3>1. [r EXCEPT !.pc = "call"] \in Work /\ Answered([r EXCEPT !.pc = "call"])
      BY <1>1, <2>1 DEF Work, Places, Answered
    <3> QED
      BY <3>1, <2>2, <1>5, <1>1 DEF Work
  <2>3. CASE Goes(w, Refused(w))
    <3>1. r.replies = 0
      BY <1>1, <2>1 DEF Answered
    <3>2. Refused(w) \in Work /\ Answered(Refused(w)) /\ Refused(w).pc = "done"
      BY <3>1, <1>1, <1>6, RepliedOnce DEF Refused
    <3> QED
      BY <3>2, <2>3, <1>5
  <2> QED
    BY <1>7, <2>2, <2>3 DEF Decode
<1>8. CASE CallEnds(w)
  <2>1. r.pc = "call" /\ r.replies = 0 /\ r.shim \in DOMAIN GoodReplies
    BY <1>8, <1>1, Zenon DEF CallEnds, Answered
  <2>2. PICK result \in {"ok", "err", "panic"} : \E reply \in Outcome(r.shim, result) :
            \/ Goes(w, Replied(r, reply, "leave"))
            \/ \E k \in 0 .. MaxPage :
                   Goes(w, [r EXCEPT !.pc = "reply", !.reply = reply, !.retained = k])
    BY <1>8, Zenon DEF CallEnds
  <2>3. PICK reply \in Outcome(r.shim, result) :
            \/ Goes(w, Replied(r, reply, "leave"))
            \/ \E k \in 0 .. MaxPage :
                   Goes(w, [r EXCEPT !.pc = "reply", !.reply = reply, !.retained = k])
    BY <2>2, Zenon
  <2>4. reply \in Replies
    BY <2>1, OutcomeType
  <2>5. CASE Goes(w, Replied(r, reply, "leave"))
    <3>2. /\ Replied(r, reply, "leave") \in Work /\ Answered(Replied(r, reply, "leave"))
          /\ Replied(r, reply, "leave").pc = "leave"
      BY <1>1, <2>1, <2>4, RepliedOnce
    <3> QED
      BY <3>2, <2>5, <1>5
  <2>6. ASSUME NEW k \in 0 .. MaxPage,
               Goes(w, [r EXCEPT !.pc = "reply", !.reply = reply, !.retained = k])
        PROVE  IInv'
    <3> DEFINE q == [r EXCEPT !.pc = "reply", !.reply = reply, !.retained = k]
    <3>1. k \in Nat
      BY BoundsAreNumbers
    <3>2. q \in Work /\ q.pc = "reply" /\ q.replies = 0
      BY <3>1, <1>1, <2>1, <2>4, Zenon DEF Work, Places
    <3> HIDE DEF q
    <3>3. Answered(q)
      BY <3>2 DEF Answered
    <3> QED
      BY <3>2, <3>3, <2>6, <1>5, Zenon DEF q
  <2> QED
    BY <2>3, <2>5, <2>6, Zenon
<1>9. CASE Reply(w)
  <2>1. r.pc = "reply" /\ r.replies = 0
    BY <1>9, <1>1 DEF Reply, Answered
  <2>2. PICK pc \in {"done", "rollback"} : Goes(w, Replied(r, r.reply, pc))
    BY <1>9 DEF Reply
  <2>3. r.reply \in Replies
    BY <1>1 DEF Work
  <2>4. /\ Replied(r, r.reply, pc) \in Work /\ Answered(Replied(r, r.reply, pc))
        /\ Replied(r, r.reply, pc).pc = pc
    BY <1>1, <2>1, <2>3, RepliedOnce
  <2> QED
    BY <2>2, <2>4, <1>5
<1>10. CASE Leave(w)
  <2>1. [r EXCEPT !.pc = "done"] \in Work /\ Answered([r EXCEPT !.pc = "done"])
    BY <1>10, <1>1 DEF Leave, Work, Places, Answered
  <2> QED
    BY <2>1, <1>10, <1>5, <1>1 DEF Leave, Work
<1>11. CASE Return(w)
    BY IdleWork, <1>11, <1>5 DEF Return
<1> QED
    BY <1>7, <1>8, <1>9, <1>10, <1>11

\* Taking back what a listing retained keeps the invariant, and so does a panic
\* that ends the process on the way.
LEMMA RollbackKeeps ==
    ASSUME IInv, ~Aborted, NEW w \in Workers, Rollback(w)
    PROVE  IInv'
<1> DEFINE r == work[w]
<1>1. r \in Work /\ Answered(r) /\ served \in Nat /\ r.pc = "rollback" /\ r.replies = 1
    BY DEF IInv, Types, Answers, Answered, Rollback
<1>2. owner = "loop"
    BY <1>1, BusyInLoop
<1>3. UNCHANGED <<multi, lib, runtime, exited, served, told>>
    BY DEF Rollback
<1>4. CASE owner' = "aborted" /\ UNCHANGED work
  <2>1. Types'
    BY <1>3, <1>4 DEF IInv, Types, Owners
  <2>2. Stages'
    BY <1>2, <1>3, <1>4 DEF IInv, Stages
  <2>3. Answers'
    BY <1>4 DEF IInv, Answers, Idle
  <2>4. Calls'
    BY <1>2, <1>3, <1>4 DEF IInv, Calls
  <2> QED
    BY <2>1, <2>2, <2>3, <2>4 DEF IInv
<1>5. ASSUME NEW q \in Work, q.pc \in {"rollback", "done"}, q.replies = 1, Goes(w, q),
             UNCHANGED owner
      PROVE  IInv'
  <2>1. Answered(q)
    BY <1>5 DEF Answered
  <2> QED
    BY <1>1, <1>2, <1>3, <1>5, <2>1, MoveKeeps
<1>6. CASE r.retained = 0 /\ Goes(w, [r EXCEPT !.pc = "done", !.stale = TRUE]) /\ UNCHANGED owner
  <2> DEFINE q == [r EXCEPT !.pc = "done", !.stale = TRUE]
  <2>1. q \in Work /\ q.pc = "done" /\ q.replies = 1
    BY <1>1, Zenon DEF Work, Places
  <2> QED
    BY <2>1, <1>5, <1>6, Zenon
<1>7. CASE r.retained # 0 /\ Goes(w, [r EXCEPT !.retained = r.retained - 1, !.stale = TRUE])
           /\ UNCHANGED owner
  <2> DEFINE q == [r EXCEPT !.retained = r.retained - 1, !.stale = TRUE]
  <2>1. r.retained - 1 \in Nat
    BY <1>1, <1>7 DEF Work
  <2>2. q \in Work /\ q.pc = "rollback" /\ q.replies = 1
    BY <1>1, <2>1, Zenon DEF Work
  <2> QED
    BY <2>2, <1>5, <1>7, Zenon
<1> QED
    BY <1>4, <1>6, <1>7 DEF Rollback

\* A worker that takes a request from the loop.
LEMMA ReceiveKeeps ==
    ASSUME IInv, NEW w \in Workers, NEW s \in Requests, Receive(w, s)
    PROVE  IInv'
<1> DEFINE q == [Idle EXCEPT !.pc = "shim", !.shim = s]
<1>1. s \in DOMAIN GoodReplies /\ "shim" \in Places
    BY RequestsServed DEF Places
<1>2. Idle \in Work /\ Idle.replies = 0
    BY IdleWork
<1>3. q \in Work /\ q.pc = "shim" /\ q.replies = 0 /\ q.shim = s
    BY <1>1, <1>2, Zenon DEF Work
<1>4. /\ owner = "loop" /\ work[w].pc = "idle" /\ served' \in Nat /\ Goes(w, q)
      /\ UNCHANGED <<owner, multi, lib, runtime, exited, told>>
    BY DEF Receive, Takes, Idle, IInv, Types
<1> HIDE DEF q
<1>5. Answered(q)
    BY <1>1, <1>3 DEF Answered
<1> QED
    BY <1>3, <1>4, <1>5, MoveKeeps

\* init and destroy, from the request or from the trampoline's return.
LEMMA InitKeeps ==
    ASSUME IInv, NEW w \in Workers, ReceiveInit(w) \/ (~Aborted /\ InitShim(w))
    PROVE  IInv'
<1> DEFINE busy == [Idle EXCEPT !.pc = "init"]
<1>1. /\ busy \in Work /\ busy.pc = "init" /\ busy.replies = 0
      /\ Idle \in Work /\ Idle.pc = "idle" /\ Answered(Idle)
  <2>1. Idle \in Work /\ Idle.replies = 0 /\ "init" \in Places
    BY IdleWork DEF Places
  <2> QED
    BY <2>1, IdleWork DEF Work
<1> HIDE DEF busy
<1>2. Answered(busy)
    BY <1>1 DEF Answered
<1>3. CASE ReceiveInit(w)
  <2>1. /\ owner = "loop" /\ ~lib.init /\ work[w].pc = "idle" /\ Goes(w, busy)
        /\ lib' = [lib EXCEPT !.init = TRUE] /\ served' \in Nat
        /\ UNCHANGED <<owner, multi, runtime, exited, told>>
    BY <1>3, <1>1 DEF ReceiveInit, Takes, IInv, Types, busy
  <2>2. /\ work' \in [Workers -> Work] /\ work'[w] = busy
        /\ \A v \in Workers \ {w} : work'[v] = work[v]
    BY <2>1, <1>1 DEF IInv, Types, Goes
  <2>3. Types'
    BY <2>1, <2>2, Zenon DEF IInv, Types
  <2>4. Stages'
    BY <2>1 DEF IInv, Types, Stages
  <2>5. Answers'
    BY <2>2, <1>2 DEF IInv, Answers, Answered
  <2>6. told.init = 0
    BY <2>1 DEF IInv, Calls
  <2>7. \A v \in Workers : work'[v].pc = "init" <=> v = w
    BY <2>1, <2>2, <1>1 DEF IInv, Calls
  <2>8. \A v \in Workers : work'[v].pc = "destroy" <=> work[v].pc = "destroy"
    BY <2>1, <2>2, <1>1
  <2>9. lib'.init /\ lib'.destroy = lib.destroy
    BY <2>1 DEF IInv, Types
  <2>10. Calls'
    BY <2>1, <2>6, <2>7, <2>8, <2>9 DEF IInv, Calls
  <2> QED
    BY <2>3, <2>4, <2>5, <2>10 DEF IInv
<1>4. CASE ~Aborted /\ InitShim(w)
  <2>1. /\ work[w].pc = "init" /\ Goes(w, Idle)
        /\ told' = [told EXCEPT !.init = told.init + 1]
        /\ UNCHANGED <<owner, multi, lib, runtime, exited, served>>
    BY <1>4 DEF InitShim
  <2>2. owner = "loop"
    BY <2>1, <1>4, BusyInLoop
  <2>3. /\ work' \in [Workers -> Work] /\ work'[w] = Idle
        /\ \A v \in Workers \ {w} : work'[v] = work[v]
    BY <2>1, <1>1 DEF IInv, Types, Goes
  <2>4. Types'
    BY <2>1, <2>3 DEF IInv, Types
  <2>5. Stages'
    BY <2>1, <2>2 DEF IInv, Stages
  <2>6. Answers'
    BY <2>3, <1>1 DEF IInv, Answers, Answered
  <2>7. told.init = 0 /\ lib.init /\ told'.init = 1 /\ told'.destroy = told.destroy
    BY <2>1 DEF IInv, Types, Calls
  <2>8. \A v \in Workers : work'[v].pc # "init"
    BY <2>1, <2>3, <1>1 DEF IInv, Calls
  <2>9. \A v \in Workers : work'[v].pc = "destroy" <=> work[v].pc = "destroy"
    BY <2>1, <2>3, <1>1
  <2>10. Calls'
    BY <2>1, <2>2, <2>7, <2>8, <2>9 DEF IInv, Calls
  <2> QED
    BY <2>4, <2>5, <2>6, <2>10 DEF IInv
<1> QED
    BY <1>3, <1>4

\* The same for a DESTROY request.
LEMMA DestroyKeeps ==
    ASSUME IInv, NEW w \in Workers, ReceiveDestroy(w) \/ (~Aborted /\ DestroyShim(w))
    PROVE  IInv'
<1> DEFINE busy == [Idle EXCEPT !.pc = "destroy"]
<1>1. /\ busy \in Work /\ busy.pc = "destroy" /\ busy.replies = 0
      /\ Idle \in Work /\ Idle.pc = "idle" /\ Answered(Idle)
  <2>1. Idle \in Work /\ Idle.replies = 0 /\ "destroy" \in Places
    BY IdleWork DEF Places
  <2> QED
    BY <2>1, IdleWork DEF Work
<1> HIDE DEF busy
<1>2. Answered(busy)
    BY <1>1 DEF Answered
<1>3. CASE ReceiveDestroy(w)
  <2>1. /\ owner = "loop" /\ told.init = 1 /\ ~lib.destroy /\ work[w].pc = "idle"
        /\ Goes(w, busy) /\ lib' = [lib EXCEPT !.destroy = TRUE] /\ served' \in Nat
        /\ exited' = TRUE /\ UNCHANGED <<owner, multi, runtime, told>>
    BY <1>3, <1>1 DEF ReceiveDestroy, Takes, IInv, Types, busy
  <2>2. /\ work' \in [Workers -> Work] /\ work'[w] = busy
        /\ \A v \in Workers \ {w} : work'[v] = work[v]
    BY <2>1, <1>1 DEF IInv, Types, Goes
  <2>3. Types'
    BY <2>1, <2>2, Zenon DEF IInv, Types
  <2>4. Stages'
    BY <2>1 DEF IInv, Types, Stages
  <2>5. Answers'
    BY <2>2, <1>2 DEF IInv, Answers, Answered
  <2>6. told.destroy = 0
    BY <2>1 DEF IInv, Calls
  <2>7. \A v \in Workers : work'[v].pc = "destroy" <=> v = w
    BY <2>1, <2>2, <1>1 DEF IInv, Calls
  <2>8. \A v \in Workers : work'[v].pc = "init" <=> work[v].pc = "init"
    BY <2>1, <2>2, <1>1
  <2>9. lib'.destroy /\ lib'.init = lib.init
    BY <2>1 DEF IInv, Types
  <2>10. Calls'
    BY <2>1, <2>6, <2>7, <2>8, <2>9 DEF IInv, Calls
  <2> QED
    BY <2>3, <2>4, <2>5, <2>10 DEF IInv
<1>4. CASE ~Aborted /\ DestroyShim(w)
  <2>1. /\ work[w].pc = "destroy" /\ Goes(w, Idle)
        /\ told' = [told EXCEPT !.destroy = told.destroy + 1]
        /\ UNCHANGED <<owner, multi, lib, runtime, exited, served>>
    BY <1>4 DEF DestroyShim
  <2>2. owner = "loop"
    BY <2>1, <1>4, BusyInLoop
  <2>3. /\ work' \in [Workers -> Work] /\ work'[w] = Idle
        /\ \A v \in Workers \ {w} : work'[v] = work[v]
    BY <2>1, <1>1 DEF IInv, Types, Goes
  <2>4. Types'
    BY <2>1, <2>3 DEF IInv, Types
  <2>5. Stages'
    BY <2>1, <2>2 DEF IInv, Stages
  <2>6. Answers'
    BY <2>3, <1>1 DEF IInv, Answers, Answered
  <2>7. told.destroy = 0 /\ lib.destroy /\ told'.destroy = 1 /\ told'.init = told.init
    BY <2>1 DEF IInv, Types, Calls
  <2>8. \A v \in Workers : work'[v].pc # "destroy"
    BY <2>1, <2>3, <1>1 DEF IInv, Calls
  <2>9. \A v \in Workers : work'[v].pc = "init" <=> work[v].pc = "init"
    BY <2>1, <2>3, <1>1
  <2>10. Calls'
    BY <2>1, <2>2, <2>7, <2>8, <2>9 DEF IInv, Calls
  <2> QED
    BY <2>4, <2>5, <2>6, <2>10 DEF IInv
<1> QED
    BY <1>3, <1>4

------------------------------------------------------------------------------
\* The invariant holds throughout a session's life.
THEOREM SessionInvariant == Spec => []IInv
<1>1. Init => IInv
    BY InitIInv
<1>2. IInv /\ [Next]_vars => IInv'
  <2> SUFFICES ASSUME IInv, [Next]_vars PROVE IInv'
    OBVIOUS
  <2>1. CASE OwnerStep \/ LoopEnds \/ AskToExit
    BY <2>1, OwnerKeeps
  <2>2. CASE \E w \in Workers : WorkerStep(w)
    BY <2>2, RequestKeeps, RollbackKeeps, InitKeeps, DestroyKeeps DEF WorkerStep
  <2>3. CASE \E w \in Workers : ReceiveInit(w)
    BY <2>3, InitKeeps
  <2>4. CASE \E w \in Workers : ReceiveDestroy(w)
    BY <2>4, DestroyKeeps
  <2>5. CASE \E w \in Workers : \E s \in Requests : Receive(w, s)
    BY <2>5, ReceiveKeeps
  <2>6. CASE UNCHANGED vars
    BY <2>6 DEF IInv, vars, Types, Stages, Answers, Calls, IdleWorkers
  <2> QED
    BY <2>1, <2>2, <2>3, <2>4, <2>5, <2>6 DEF Next
<1> QED
    BY <1>1, <1>2, PTL DEF Spec

\* A trampoline replies once, whatever the callback it makes does, for any
\* number of worker threads and requests.
THEOREM EveryRequestAnsweredOnce == Spec => []AnsweredOnce
<1>1. IInv => AnsweredOnce
  <2> SUFFICES ASSUME IInv, NEW w \in Workers
               PROVE  work[w].replies <= 1 /\ (work[w].pc = "done" => work[w].replies = 1)
    BY Zenon DEF AnsweredOnce
  <2>1. work[w].pc \in Places
    BY DEF IInv, Types, Work
  <2>2. work[w].pc = "idle" => work[w].replies = 0
    BY IdleWork DEF IInv, Answers
  <2> QED
    BY <2>1, <2>2 DEF IInv, Answers, Places
<1> QED
    BY <1>1, SessionInvariant, PTL

\* The runtime is freed after everything that calls into it is gone.
THEOREM RuntimeFreedLast == Spec => []RuntimeOutlivesUse
<1>1. IInv => RuntimeOutlivesUse
    BY DEF IInv, Types, Owners, Stages, IdleWorkers, Aborted, Nothing, RuntimeOutlivesUse
<1> QED
    BY <1>1, SessionInvariant, PTL

\* Every way out of a session leaves nothing behind, and tells the filesystem
\* of destroy as often as of init.
THEOREM EverythingTornDown == Spec => []NothingLeft
<1>1. IInv => NothingLeft
    BY DEF IInv, Stages, Calls, NothingLeft
<1> QED
    BY <1>1, SessionInvariant, PTL

==============================================================================
