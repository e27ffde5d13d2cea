---------------------------- MODULE VstrEvntLoop ----------------------------
(***************************************************************************)
(* The main loop of the example programs: evnt_poll(), evnt_scan_fds(),    *)
(* evnt_scan_send_fds(), the timers and evnt_scan_send_fds() again.  A     *)
(* step is one iteration of one of the loops inside these functions, with  *)
(* the callback it makes.                                                  *)
(*                                                                         *)
(* Next to the kernel there are the peers, which may fall silent for good, *)
(* time, which makes connections old, and the death of a child process.    *)
(***************************************************************************)
EXTENDS VstrEvntApp

CONSTANTS
  Modes,      \* what to look at: program, whether epoll is used, and the
              \* number of events there is memory for
  AcptMaxs,   \* values of max_connections; 0 is no limit
  AcptLimit,  \* evnt__accept_limit
  MaxReady,   \* EVNT__EPOLL_EVENTS
  MaxUi,      \* lines typed that are not answered yet
  AnyHup,     \* may poll() report POLLHUP alone of the client's descriptors?
  Silent      \* peers that may fall silent

ASSUME LoopAssumption ==
  /\ Modes \subseteq Apps \X BOOLEAN \X Evnts
  /\ AcptMaxs \subseteq Nat
  /\ {AcptLimit, MaxReady, MaxUi} \subseteq Nat \ {0}
  /\ {AnyHup, Silent} \subseteq BOOLEAN

VARIABLES
  m,       \* the events
  app,     \* the program
  direct,  \* evnt_poll_direct_enabled()
  at,      \* where the main loop is
  scan,    \* scan of the loop at at; of scan_send_fds, the event whose
           \* s_next it points to, None for q_send_now itself
  ready    \* events that poll reported and that were not dealt with

vars == <<m, app, direct, at, scan, ready>>

Stages == <<"connect", "accept", "recv", "send_recv", "none">>

Places == ToSet(Stages) \cup
  {"poll", "ui", "fds", "close", "send", "timer", "send_last", "check",
   "exit", "abort"}

-----------------------------------------------------------------------------

Goto(place, e, n) == at' = place /\ scan' = e /\ ready' = n

(* The next loop of evnt_scan_fds(), from the i-th one on, that has        *)
(* something to do.                                                        *)
ToStage(x, i, n) ==
  LET busy == {j \in i .. 5 : n > 0 /\ x.que[Stages[j]] # <<>>}
      j == CHOOSE j \in busy : \A k \in busy : j <= k
  IN IF busy = {} THEN Goto("close", None, n)
     ELSE Goto(Stages[j], x.que[Stages[j]][1], n)

StageNo == SelectInSeq(Stages, LAMBDA q : q = at)

(* scan = scan_next, or the end of the loop.                               *)
ToNext(x, next, n) ==
  IF next = None \/ n = 0 THEN ToStage(x, StageNo + 1, n) ELSE Goto(at, next, n)

(* Mutant: scan->next is read after the callback. *)
DoneNextMutant(x, next) ==
  m' = x /\ ToNext(x, IF x.ev[scan].q = "free" THEN next ELSE NextOf(x, scan),
                   ready - 1)

(* Mutant: the ready event is not counted off. *)
DoneReadyMutant(x, next) == m' = x /\ ToNext(x, next, ready)

(* The end of an iteration that did, or did not, use up a ready event.     *)
Done(x, next) == m' = x /\ ToNext(x, next, ready - 1)
NotReady(x, next) ==
  m' = x /\ IF direct THEN ToStage(x, StageNo + 1, ready)
            ELSE ToNext(x, next, ready)

Revents(x, e, f) == [x EXCEPT !.ev[e].revents = f]
Is(f) == f \in m.ev[scan].revents
Next1 == NextOf(m, scan)

-----------------------------------------------------------------------------
(* evnt_poll()                                                             *)

(* What the kernel may report of an event.                                 *)
Reports(e) ==
  LET c == m.ev[e]
  IN CASE c.gone -> {{POLLBAD}}
       [] ~c.gone /\ c.quiet -> {{}}
       [] OTHER -> {f \cup b : f \in SUBSET c.events, b \in {{}, {POLLBAD}}}

Polled(x, next, n) ==
  m' = x /\ Goto(next, None, n)

AfterPoll == IF app = "cntl" THEN "ui" ELSE "fds"

(* The same of a descriptor of the client, which is polled or not.  What   *)
(* POLLHUP beside other flags does, those do.                              *)
IoReports(on, flags) ==
  IF on THEN SUBSET (flags \cup {POLLBAD}) \cup (IF AnyHup THEN {{POLLHUP}} ELSE {})
  ELSE {{}}

IoPolled(io) ==
  {[io EXCEPT !.rin = f, !.rout = g] :
     f \in IoReports(io.r, {POLLIN}),
     g \in IoReports(io.w, IF io.out THEN {POLLOUT} ELSE {})}

Count(f) == IF f # {} THEN 1 ELSE 0

Poll ==
  /\ at = "poll" /\ ~m.child /\ ~direct
  /\ \E f \in [Alive(m) -> UNION {Reports(e) : e \in Alive(m)}], io \in IoPolled(m.io) :
       /\ \A e \in Alive(m) : f[e] \in Reports(e)
       /\ Polled([m EXCEPT !.io = io,
                           !.ev = [e \in Evnts |->
                    IF e \in Alive(m) THEN [@[e] EXCEPT !.revents = f[e]]
                    ELSE @[e]]],
                 AfterPoll, Cardinality({e \in Alive(m) : f[e] # {}})
                              + Count(io.rin) + Count(io.rout))
  /\ UNCHANGED <<app, direct>>

(* epoll_wait(): the events reported go to the front of their queues, the  *)
(* last one reported first; the others keep their revents.                 *)
ToFront(x, e) == Link(Unlink(x, e), e, x.ev[e].q)

EPoll ==
  /\ at = "poll" /\ ~m.child /\ direct
  /\ \E s \in {t \in BoundedSeq(Alive(m), MaxReady) : IsInjective(t)} :
       \E f \in [ToSet(s) -> UNION {Reports(e) : e \in Alive(m)}] :
         /\ \A e \in ToSet(s) : f[e] \in Reports(e) \ {{}}
         /\ Polled(FoldRight(LAMBDA e, x : ToFront(Revents(x, e, f[e]), e), s, m),
                   AfterPoll, Len(s))
  /\ UNCHANGED <<app, direct>>

(* evnt__poll_accept()                                                     *)
PollAccept ==
  /\ at = "poll" /\ ~m.child
  /\ Cardinality(Alive(m)) = 1 /\ m.que["accept"] # <<>> /\ m.now = <<>>
  /\ \E o \in CbAccept(m) : Polled(o.m, "fds", 1)
  /\ UNCHANGED <<app, direct>>

(* The poll is interrupted.                                                *)
PollEintr ==
  /\ at = "poll" /\ app # "cntl"
  /\ m' = m /\ Goto("check", None, 0)
  /\ UNCHANGED <<app, direct>>

(* A signal says that a child has died.                                    *)
ChildExited ==
  /\ at \in {"poll", "check"} /\ app # "cntl" /\ ~m.child
  /\ m' = [m EXCEPT !.child = TRUE]
  /\ UNCHANGED <<app, direct, at, scan, ready>>

(* The peer of e is never heard of again.                                  *)
FallSilent(e) ==
  /\ at = "poll" /\ Silent
  /\ m.ev[e].q \in Queues \ {"accept"} /\ ~m.ev[e].quiet
  /\ m' = [m EXCEPT !.ev[e].quiet = TRUE]
  /\ UNCHANGED <<app, direct, at, scan, ready>>

(* cl_scan_io_fds().  A descriptor with an error is closed, and counted    *)
(* off; POLLHUP is not among the errors.                                   *)
Outstanding(x) == FoldFunctionOnSet(LAMBDA c, n : c.owed + n, x.ui, x.ev, Evnts)

IoBad(io) == [io EXCEPT !.r = @ /\ POLLBAD \notin io.rin,
                        !.w = @ /\ POLLBAD \notin io.rout]

IoIn(io) == io.r /\ POLLIN \in io.rin
IoOut(io) == io.w /\ POLLOUT \in io.rout

(* Lines were typed, the input may be over, and then ui_parse() is called, *)
(* or reading failed; without input it is called while there is an output. *)
UiRead(x) ==
  CASE IoIn(x.io) ->
         {Result(x, TRUE)} \cup
         UNION {UiParse([x EXCEPT !.ui = @ + n, !.io.r = more]) :
                  n \in {k \in 0 .. MaxUi : k = 0 \/ Outstanding(x) + k <= MaxUi},
                  more \in BOOLEAN}
    [] ~IoIn(x.io) /\ x.io.w -> UiParse(x)
    [] OTHER -> {Result(x, TRUE)}

(* What is waiting for the output is written, or a part of it.             *)
UiWrite(x) ==
  {[x EXCEPT !.io.out = out, !.io.rin = {}, !.io.rout = {}] :
     out \in IF IoOut(x.io) THEN BOOLEAN ELSE {x.io.out}}

(* Mutant: what was read is not counted off. *)
UiCountMutant(io) ==
  Count(io.rin \cap {POLLBAD}) + Count(io.rout \cap {POLLBAD, POLLOUT})

(* How often it counts ready down. *)
UiCount(io) ==
  Count(io.rin \cap {POLLBAD, POLLIN}) + Count(io.rout \cap {POLLBAD, POLLOUT})

Ui ==
  /\ at = "ui"
  /\ \E o \in UiRead([m EXCEPT !.io = IoBad(@)]) :
       /\ m' \in UiWrite(o.m)
       /\ Goto(IF o.ret THEN "fds" ELSE "exit", None, ready - UiCount(m.io))
  /\ UNCHANGED <<app, direct>>

-----------------------------------------------------------------------------
(* evnt_scan_fds()                                                         *)

ScanFds ==
  /\ at = "fds"
  /\ m' = m /\ ToStage(m, 1, ready)
  /\ UNCHANGED <<app, direct>>

(* Every loop passes over an event that is to be freed.  The first two     *)
(* loops forget what was reported of an event they have looked at.         *)
Forget(x, e) == IF at \in {"connect", "accept"} THEN Revents(x, e, {}) ELSE x

ScanClosed ==
  /\ at \in ToSet(Stages) /\ m.ev[scan].closed
  /\ m' = Forget(m, scan) /\ ToNext(m, Next1, ready)
  /\ UNCHANGED <<app, direct>>

(* Nothing was reported of an event.                                       *)
ScanIdle ==
  /\ at \in ToSet(Stages) /\ ~m.ev[scan].closed
  /\ m.ev[scan].revents = {}
  /\ NotReady(IF direct THEN m ELSE Forget(m, scan), Next1)
  /\ UNCHANGED <<app, direct>>

Scanning(stage) ==
  /\ at = stage /\ ~m.ev[scan].closed /\ m.ev[scan].revents # {}
  /\ UNCHANGED <<app, direct>>

Connected(e) == WaitDel(Move(m, e, "none"), e, {POLLOUT})

ScanConnect ==
  /\ Scanning("connect")
  /\ \/ m' = m /\ Goto("exit", None, 0) /\ m.ev[scan].gone
     \/ Done(CloseNow(m, scan), Next1) /\ ~m.ev[scan].gone
     \/ /\ ~m.ev[scan].gone
        /\ \E o \in UiParse(Connected(scan)) :
             Done(Forget(o.m, scan), Next1)

RECURSIVE Accepts(_, _, _)

(* The accept loop: up to limit connections are accepted while the         *)
(* listener may be read from, with a ready event for each.                 *)
Accepts(x, n, limit) ==
  {[m |-> x, n |-> n]} \cup
  IF limit = 0 \/ POLLIN \notin x.ev[scan].revents THEN {}
  ELSE UNION {Accepts(o.m, IF o.m.ev[o.con].closed THEN n ELSE n + 1, limit - 1) :
                o \in CbAccept(x)}

ScanAccept ==
  /\ Scanning("accept")
  /\ IF Is(POLLBAD) THEN Done(CloseNow(m, scan), Next1)
     ELSE \E o \in Accepts(m, ready, AcptLimit) :
            /\ m' = Forget(o.m, scan)
            /\ ToNext(m', Next1, o.n - 1)

(* What a callback or a call says is done with: the event is freed when it *)
(* failed.                                                                 *)
Settle(o, e) == IF o.ret THEN o.m ELSE CloseNow(o.m, e)

Shut(x, e) ==
  LET c == x.ev[e]
  IN IF c.rsh \/ (at = "recv" /\ c.wsh) THEN {Result(x, FALSE)}
     ELSE CbShutdownR(x, e)

ScanRecv ==
  /\ Scanning("recv")
  /\ \E o \in IF Is(POLLIN) THEN CbRecv(app, m, scan) ELSE Shut(m, scan) :
       Done(Settle(o, scan), Next1)

ScanSendRecv ==
  LET out(x) == IF POLLOUT \in x.ev[scan].revents
                THEN SendAdd(x, scan, TRUE, WaitSz) ELSE {Result(x, TRUE)}
      all == CASE Is(POLLIN) -> Then(CbRecv(app, m, scan), out)
               [] ~Is(POLLIN) /\ Is(POLLOUT) -> out(m)
               [] OTHER -> Shut(m, scan)
  IN /\ Scanning("send_recv")
     /\ \E o \in all : Done(Settle(o, scan), Next1)

ScanNone ==
  /\ Scanning("none")
  /\ Done(CloseNow(m, scan), Next1)

(* The end: events are freed, or every ready event was dealt with.         *)
ScanEnd ==
  /\ at = "close"
  /\ m' = ScanQClose(m)
  /\ Goto(IF m.cls = <<>> /\ ready > 0 THEN "abort" ELSE "send", None, 0)
  /\ UNCHANGED <<app, direct>>

-----------------------------------------------------------------------------
(* evnt_scan_send_fds(), first and last, and the timers between them.      *)

SendScan == IF scan = None THEN First(m.now) ELSE After(m.now, scan)

SendOne ==
  /\ at \in {"send", "send_last"} /\ SendScan # None
  /\ LET e == SendScan
     IN \E o \in CbSend(app, SendDel(m, e), e) :
          /\ m' = Settle(o, e)
          /\ scan' = IF scan = None /\ First(m'.now) = e THEN e ELSE scan
  /\ UNCHANGED <<app, direct, at, ready>>

SendEnd ==
  /\ at \in {"send", "send_last"} /\ SendScan = None
  /\ m' = ScanQClose(m)
  /\ Goto(IF at = "send" THEN "timer" ELSE "check", None, 0)
  /\ UNCHANGED <<app, direct>>

Timer(e) ==
  /\ at = "timer" /\ m.ev[e].old
  /\ m' \in CbTimer(app, m, e)
  /\ UNCHANGED <<app, direct, at, scan, ready>>

(* All timers that are due have run; by the next time more may be due.     *)
Ageing == {e \in Alive(m) : m.ev[e].q # "accept" /\ ~m.ev[e].gone}

TimerEnd ==
  /\ at = "timer" /\ \A e \in Evnts : ~m.ev[e].old
  /\ \E s \in SUBSET Ageing :
       m' = ScanQClose([m EXCEPT !.ev = [e \in Evnts |->
                          IF e \in s THEN [@[e] EXCEPT !.old = TRUE] ELSE @[e]]])
  /\ Goto("send_last", None, 0)
  /\ UNCHANGED <<app, direct>>

-----------------------------------------------------------------------------

(* opt_serv_sc_check_children(), and evnt_waiting() at the top.            *)
Waiting(x) ==
  x.now # <<>> \/ \E q \in Queues \ {"none"} : x.que[q] # <<>>

(* main() of the client: io_w may be empty although POLLOUT is asked for.  *)
ClWaiting(x) ==
  {x.io.w /\ (out \/ Waiting(x) \/ x.io.r \/ x.ui > 0) : out \in {FALSE, x.io.out}}

Check ==
  LET x == IF m.child THEN [ScanQClose(AcptCloseAll(m)) EXCEPT !.child = FALSE]
           ELSE m
  IN /\ at = "check"
     /\ m' = x
     /\ \E on \in IF app = "cntl" THEN ClWaiting(x) ELSE {Waiting(x)} :
          Goto(IF on THEN "poll" ELSE "exit", None, 0)
     /\ UNCHANGED <<app, direct>>

Ended == at \in {"exit", "abort"} /\ UNCHANGED vars

-----------------------------------------------------------------------------

(* A server has its listener, the client its first connection, and lines   *)
(* that are typed or one given with --execute.                             *)
Init ==
  /\ \E p \in Modes :
       /\ app = p[1] /\ direct = p[2]
       /\ IF app = "cntl"
          THEN \E n \in 0 .. 1 :
                 \E o \in ClConnect([Empty EXCEPT !.mem = p[3], !.ui = n,
                                       !.io.r = (n = 0), !.io.w = TRUE]) :
                   o.ret /\ m = o.m
          ELSE \E n \in AcptMaxs :
                 m = Bind([Empty EXCEPT !.mem = p[3], !.max = n], 1)
  /\ at = "poll" /\ scan = None /\ ready = 0

Scan ==
  \/ ScanFds \/ ScanClosed \/ ScanIdle \/ ScanConnect \/ ScanAccept
  \/ ScanRecv \/ ScanSendRecv \/ ScanNone \/ ScanEnd

Loop ==
  \/ Poll \/ EPoll \/ PollAccept \/ PollEintr \/ Ui
  \/ Scan
  \/ SendOne \/ SendEnd
  \/ \E e \in Evnts : Timer(e)
  \/ TimerEnd
  \/ Check

Next ==
  \/ Loop
  \/ ChildExited
  \/ \E e \in Evnts : FallSilent(e)
  \/ Ended

(* The loop goes on, poll is not interrupted every time, and for every     *)
(* connection time passes.                                                 *)
Fairness ==
  /\ WF_vars(Loop)
  /\ SF_vars(Poll \/ EPoll)
  /\ \A e \in Evnts : SF_vars(TimerEnd /\ m'.ev[e].old)

Spec == Init /\ [][Next]_vars /\ Fairness

-----------------------------------------------------------------------------

(* The types of the events, the lists and the variables of the loop.       *)
TypeOK ==
  /\ \A e \in Evnts :
       /\ m.ev[e].q \in Queues \cup {"free"}
       /\ m.ev[e].events \subseteq {POLLIN, POLLOUT}
       /\ m.ev[e].revents \subseteq {POLLIN, POLLOUT, POLLBAD}
       /\ m.ev[e].w \in 0 .. MaxW /\ m.ev[e].owed \in 0 .. MaxUi
       /\ m.ev[e].r \in 0 .. MaxR /\ m.ev[e].fs \in 0 .. MaxFs
  /\ m.cons \in 0 .. NEvnt /\ m.ui \in 0 .. MaxUi
  /\ <<app, direct, m.mem>> \in Modes /\ at \in Places
  /\ scan \in Evnts \cup {None} /\ ready \in 0 .. 2 * NEvnt
  /\ m.io \in [r : BOOLEAN, w : BOOLEAN, out : BOOLEAN,
               rin : SUBSET {POLLIN, POLLBAD, POLLHUP}, rout : SUBSET {POLLOUT, POLLBAD, POLLHUP}]

(* evnt__valid(): an event is on the one queue its flags name, once, and   *)
(* on q_send_now and q_closed if its flags say so; an event is polled for  *)
(* what its queue is for, and nothing else is seen as reported of it.      *)
OnceOn(s, S) == ToSet(s) = S /\ Len(s) = Cardinality(S)

EvntValid ==
  /\ \A q \in Queues : OnceOn(m.que[q], {e \in Evnts : m.ev[e].q = q})
  /\ OnceOn(m.now, {e \in Alive(m) : m.ev[e].now})
  /\ OnceOn(m.cls, {e \in Alive(m) : m.ev[e].closed})
  /\ \A e \in Alive(m) :
       LET c == m.ev[e]
       IN /\ (POLLOUT \in c.events) <=> c.q \in {"connect", "send_recv"}
          /\ c.q \in {"connect", "none"} => POLLIN \notin c.events
          /\ c.revents \ {POLLBAD} \subseteq c.events

(* The event a loop of evnt_scan_fds() goes on with, taken from next       *)
(* before the callback was called, is still on the queue of that loop; the *)
(* one evnt_scan_send_fds() goes on after is still on q_send_now.          *)
ScanOnQueue ==
  /\ at \in ToSet(Stages) => m.ev[scan].q = at
  /\ at \in {"send", "send_last"} /\ scan # None => m.ev[scan].now

(* The listener knows its connections; when the loop comes round it is     *)
(* polled exactly when there are fewer than it may have, also after        *)
(* connections were refused half way or freed in any order.                *)
AcptExact ==
  app # "cntl" =>
    /\ m.cons = Cardinality(Alive(m) \ {m.acpt})
    /\ at = "poll" /\ m.acpt # None =>
         ((POLLIN \in m.ev[m.acpt].events) <=> (m.max = 0 \/ m.cons < m.max))

(* evnt__valid() holds between any two steps of the loop and callbacks,    *)
(* the loops never follow an event that was moved or freed, and the        *)
(* listener knows its connections and is polled when it may have more.     *)
EvntInv == TypeOK /\ EvntValid /\ ScanOnQueue /\ AcptExact

(* A client connection that is owed an answer is polled for it until the   *)
(* peer has finished, and one on q_none is owed nothing.                   *)
AwaitPolled ==
  app = "cntl" =>
    \A e \in Alive(m) : ~m.ev[e].closed =>
      /\ m.ev[e].owed > 0 /\ ~m.ev[e].rsh => POLLIN \in m.ev[e].events
      /\ m.ev[e].q = "none" => m.ev[e].owed = 0

(* When the HTTP server goes to poll, a connection with something to send  *)
(* is queued to send or polled for it, and one that has nothing to send is *)
(* polled for input, unless the server has finished with it.               *)
HttpdNotStuck ==
  app = "httpd" /\ at = "poll" =>
    \A e \in Alive(m) \ {m.acpt} :
      LET c == m.ev[e]
      IN \/ c.wsh
         \/ c.now \/ POLLOUT \in c.events
         \/ c.w = 0 /\ c.fs = 0 /\ POLLIN \in c.events

(* The HTTP server and the client are not told of input, and do not ask    *)
(* for it, once the peer has finished: httpd_serv_recv() asserts it.       *)
NoReadAfterEof ==
  app # "echod" =>
    \A e \in Alive(m) : m.ev[e].rsh =>
      POLLIN \notin m.ev[e].events \cup m.ev[e].revents

(* With poll() cl_scan_io_fds() and the loops of evnt_scan_fds() use up    *)
(* the count of what was reported, wherever callbacks moved, closed or     *)
(* freed it: evnt_scan_fds() does not come to its vlg_abort().  (Not so    *)
(* for POLLHUP alone on the client's stdin or stdout: AnyHup.)             *)
ReadyAccounted == ~direct => at # "abort"

(* The same with epoll: evnt_scan_fds() says of its loops that a ready     *)
(* event left at the end is impossible (vlg_abort).                        *)
EpollAccounted == at # "abort"

(* A connection whose peer falls silent is freed in the end, by its timer, *)
(* or the program ends.  (usage() of the servers: --idle-timeout is the    *)
(* "Timeout (usecs) for connections that are idle".)                       *)
SilentFreed ==
  \A e \in Evnts : m.ev[e].quiet ~> (~m.ev[e].quiet \/ at \in {"exit", "abort"})

=============================================================================
