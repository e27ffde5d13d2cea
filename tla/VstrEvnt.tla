------------------------------ MODULE VstrEvnt ------------------------------
(***************************************************************************)
(* The events of the example programs (evnt.c): connections and listeners  *)
(* on five queues, one for each combination of what is polled for, the     *)
(* list of events to send on "now" and the list of events to free.         *)
(*                                                                         *)
(* The state is one record, so that the functions of evnt.c, which call    *)
(* each other and the callbacks of the program, are operators from a state *)
(* to a state.  A function whose result depends on the kernel is the set   *)
(* of its outcomes [m, ret], the state and the value returned.             *)
(***************************************************************************)
EXTENDS Integers, SequencesExt

CONSTANTS
  NEvnt,      \* events there are names for
  MaxW        \* output that is counted; more is not distinguished

ASSUME EvntAssumption ==
  /\ NEvnt \in Nat \ {0}
  /\ MaxW \in Nat \ {0}

Evnts == 1 .. NEvnt
None == 0
POLLIN == "in"
POLLOUT == "out"
POLLBAD == "bad"                   \* POLLERR, POLLHUP, POLLNVAL
POLLHUP == "hup"                   \* where it is told apart from these
Queues == {"connect", "accept", "recv", "send_recv", "none"}

(* struct Evnt.  w and r are the lengths of io_w and io_r, old says that   *)
(* the time since mtime is over the timeout, owed is req_put - req_got.    *)
(* The last four are fields of the program's own connection.               *)
Blank ==
  [q |-> "free", events |-> {}, revents |-> {}, closed |-> FALSE,
   now |-> FALSE, move |-> FALSE, owed |-> 0, w |-> 0, rsh |-> FALSE,
   wsh |-> FALSE, old |-> FALSE, quiet |-> FALSE, gone |-> FALSE,
   r |-> 0, part |-> FALSE, keep |-> FALSE, fs |-> 0]

(* The client's own descriptors: are stdin (io_ind_r) and stdout           *)
(* (io_ind_w) polled, for POLLOUT too, and what was reported of them.      *)
NoIo == [r |-> FALSE, w |-> FALSE, out |-> FALSE, rin |-> {}, rout |-> {}]

Empty ==
  [ev |-> [e \in Evnts |-> Blank], que |-> [q \in Queues |-> <<>>],
   now |-> <<>>, cls |-> <<>>, mem |-> NEvnt, acpt |-> None, max |-> 0, cons |-> 0,
   ui |-> 0, io |-> NoIo, child |-> FALSE]

Alive(m) == {e \in Evnts : m.ev[e].q # "free"}
Spare(m) == (1 .. m.mem) \ Alive(m)
AnySpare(m) == CHOOSE e \in Spare(m) : \A f \in Spare(m) : e <= f
First(s) == IF s = <<>> THEN None ELSE s[1]
After(s, e) == First(SubSeq(s, SelectInSeq(s, LAMBDA x : x = e) + 1, Len(s)))
NextOf(m, e) == After(m.que[m.ev[e].q], e)
AtMost(n, k) == IF n > k THEN k ELSE n

Result(m, ret) == [m |-> m, ret |-> ret]

-----------------------------------------------------------------------------
(* Queues and what is polled for.                                          *)

Unlink(m, e) == [m EXCEPT !.que[m.ev[e].q] = Remove(@, e)]
Link(m, e, q) == [m EXCEPT !.que[q] = <<e>> \o @, !.ev[e].q = q]
Move(m, e, q) == Link(Unlink(m, e), e, q)

WaitAdd(m, e, f) ==
  IF f \subseteq m.ev[e].events THEN m
  ELSE [m EXCEPT !.ev[e].events = @ \cup f,
                 !.ev[e].revents = @ \cup (f \cap {POLLIN})]

WaitDel(m, e, f) ==
  [m EXCEPT !.ev[e].events = @ \ f,
            !.ev[e].revents = IF m.ev[e].events \cap f = {} THEN @ ELSE @ \ f]

(* evnt_make_*(): evnt_init(), the queue, and what to poll for.            *)
Make(m, e, q, f, init) ==
  WaitAdd(Link([m EXCEPT !.ev[e] = init], e, q), e, f)

Bind(m, e) ==
  LET made == Make(m, e, "accept", {POLLIN}, Blank)
  IN [made EXCEPT !.ev[e].revents = {}, !.acpt = e]

-----------------------------------------------------------------------------
(* Closing.  evnt_close() only queues; evnt_free() takes the event off the *)
(* lists and calls the program's callback, which for a connection of a     *)
(* server lets its listener poll again, and for the listener says that     *)
(* there is none.                                                          *)

Close(m, e) ==
  IF m.ev[e].closed THEN m
  ELSE [m EXCEPT !.ev[e].closed = TRUE, !.cls = <<e>> \o @]

SendDel(m, e) == [m EXCEPT !.now = Remove(@, e), !.ev[e].now = FALSE]

FreeBeg(m) ==
  LET open == IF m.acpt # None /\ m.max # 0 /\ m.cons <= m.max
              THEN WaitAdd(m, m.acpt, {POLLIN}) ELSE m
  IN [open EXCEPT !.cons = @ - 1]

CbFree(m, e, q) ==
  CASE q = "accept" -> [m EXCEPT !.acpt = None]
    [] m.ev[e].move -> m
    [] OTHER -> FreeBeg(m)

Free(m, e) ==
  [CbFree(SendDel(Unlink(m, e), e), e, m.ev[e].q) EXCEPT !.ev[e] = Blank]

CloseNow(m, e) == IF m.ev[e].closed THEN m ELSE Free(m, e)

FreeFirst(m) ==
  Free([m EXCEPT !.ev[m.cls[1]].closed = FALSE, !.cls = Tail(@)], m.cls[1])

(* evnt_scan_q_close()                                                     *)
ScanQClose(m) == FoldLeft(LAMBDA x, e : FreeFirst(x), m, m.cls)

(* evnt_acpt_close_all(): every listener, of which there is one here.      *)
AcptCloseAll(m) ==
  IF m.que["accept"] = <<>> THEN m ELSE Close(m, m.que["accept"][1])

-----------------------------------------------------------------------------
(* Requests that were sent and answers that were received.                 *)

PutPkt(m, e) ==
  LET moved == IF m.ev[e].move /\ m.ev[e].q = "none"
               THEN WaitAdd(Move(m, e, "recv"), e, {POLLIN}) ELSE m
  IN [moved EXCEPT !.ev[e].owed = @ + 1]

GotPkt(m, e) ==
  LET got == [m EXCEPT !.ev[e].owed = @ - 1]
  IN IF m.ev[e].move /\ m.ev[e].q # "send_recv" /\ got.ev[e].owed = 0
     THEN WaitDel(Move(got, e, "none"), e, {POLLIN})
     ELSE got

-----------------------------------------------------------------------------
(* Input and output.                                                       *)

(* vstr_sc_write_fd() of all of io_w: a part is written, nothing because   *)
(* the socket is full, or it fails.                                        *)
CallSend(m, e) ==
  LET c == m.ev[e]
      left(k) == Result([m EXCEPT !.ev[e].w = k], TRUE)
  IN CASE c.w = 0 -> {left(0)}
       [] c.w > 0 /\ (c.wsh \/ c.gone) -> {Result(m, FALSE)}
       [] c.w > 0 /\ ~(c.wsh \/ c.gone) /\ c.quiet -> {left(c.w)}
       [] OTHER -> {left(k) : k \in 0 .. c.w} \cup {Result(m, FALSE)}

SendNow(m, e, force) ==
  IF m.ev[e].now \/ (m.ev[e].q = "send_recv" /\ ~force) THEN m
  ELSE [m EXCEPT !.now = <<e>> \o @, !.ev[e].now = TRUE]

SendAdd(m, e, force, max) ==
  IF m.ev[e].q # "send_recv" /\ m.ev[e].w > max
  THEN {IF ~o.ret \/ (o.m.ev[e].w = 0 /\ ~force) THEN o
        ELSE Result(SendNow(o.m, e, force), TRUE) : o \in CallSend(m, e)}
  ELSE {Result(SendNow(m, e, force), TRUE)}

(* Mutant: the answers still owed are forgotten once all is sent. *)
SendFinMutant(m, e) ==
  LET c == m.ev[e]
  IN CASE c.q = "send_recv" /\ c.w = 0 /\ c.move ->
            WaitDel(Move(m, e, "none"), e, {POLLIN, POLLOUT})
       [] c.q = "send_recv" /\ c.w = 0 /\ ~c.move ->
            WaitDel(Move(m, e, "recv"), e, {POLLOUT})
       [] c.q # "send_recv" /\ c.w > 0 ->
            WaitAdd(Move(m, e, "send_recv"), e,
                    IF c.rsh THEN {POLLOUT} ELSE {POLLIN, POLLOUT})
       [] OTHER -> m

SendFin(m, e) ==
  LET c == m.ev[e]
  IN CASE c.q = "send_recv" /\ c.w = 0 /\ c.move /\ c.owed = 0 ->
            WaitDel(Move(m, e, "none"), e, {POLLIN, POLLOUT})
       [] c.q = "send_recv" /\ c.w = 0 /\ ~(c.move /\ c.owed = 0) ->
            WaitDel(Move(m, e, "recv"), e, {POLLOUT})
       [] c.q # "send_recv" /\ c.w > 0 ->
            WaitAdd(Move(m, e, "send_recv"), e,
                    IF c.rsh THEN {POLLOUT} ELSE {POLLIN, POLLOUT})
       [] OTHER -> m

Fresh(m, e) == [m EXCEPT !.ev[e].old = FALSE]

Send(m, e) ==
  {IF o.ret THEN Result(SendFin(Fresh(o.m, e), e), TRUE) ELSE o :
     o \in CallSend(m, e)}

(* evnt_shutdown_r(); shutdown() is called unless the end was read.        *)
ShutdownR(m, e, eof) ==
  LET c == m.ev[e]
      off == WaitDel(m, e, {POLLIN})
      done == Result([off EXCEPT !.ev[e].rsh = TRUE], TRUE)
  IN IF c.rsh \/ c.wsh THEN {Result(m, FALSE)}
     ELSE IF eof THEN {done}
     ELSE {Result(off, FALSE)} \cup IF c.gone THEN {} ELSE {done}

ShutdownW(m, e) ==
  LET c == m.ev[e]
  IN IF c.rsh \/ c.wsh THEN {Result(m, FALSE)}
     ELSE {Result(m, FALSE),
           Result(SendFin([m EXCEPT !.ev[e].wsh = TRUE, !.ev[e].w = 0], e),
                  TRUE)}

(* evnt_cb_func_shutdown_r(), called when the socket has an error.         *)
CbShutdownR(m, e) ==
  {Result(o.m, o.ret /\ o.m.ev[e].w > 0) : o \in ShutdownR(m, e, FALSE)}

(* Mutant: a connection that was shut down already is given more time. *)
TimedOutMutant(m, e) == {Fresh(o.m, e) : o \in ShutdownW(m, e)}

(* evnt__timer_cb_mtime() once the timeout is over: there is another       *)
(* timeout for the peer to finish, if there is memory for it.              *)
TimedOut(m, e) ==
  {Fresh(o.m, e) : o \in {p \in ShutdownW(m, e) : p.ret}}
    \cup {Fresh(Close(o.m, e), e) : o \in ShutdownW(m, e)}

(* evnt_find_least_used()                                                  *)
LeastUsed(m) ==
  LET que == CASE m.que["none"] # <<>> -> m.que["none"]
               [] m.que["none"] = <<>> /\ m.que["recv"] # <<>> -> m.que["recv"]
               [] OTHER -> m.que["send_recv"]
      least(i) == \A j \in 1 .. Len(que) :
                    \/ m.ev[que[i]].w < m.ev[que[j]].w
                    \/ m.ev[que[i]].w = m.ev[que[j]].w /\ i <= j
  IN IF que = <<>> THEN None
     ELSE que[CHOOSE i \in 1 .. Len(que) : least(i)]

=============================================================================
