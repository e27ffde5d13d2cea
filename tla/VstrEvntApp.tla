---------------------------- MODULE VstrEvntApp ----------------------------
(***************************************************************************)
(* The callbacks that three programs give to the events of VstrEvnt: the   *)
(* echo server (ex_echod.c), the HTTP server (ex_httpd.c, httpd.c) and the *)
(* client of the control socket (ex_cntl.c).  As in VstrEvnt, a callback   *)
(* is the set of its outcomes [m, ret], one for every way in which the     *)
(* kernel, the peer and the memory allocation may answer its calls.        *)
(*                                                                         *)
(* Of the data only amounts are kept: w units of output; for the HTTP      *)
(* server r whole requests and maybe a part of one, and fs pieces of the   *)
(* file being sent; for the client the answers it is owed.                 *)
(***************************************************************************)
EXTENDS VstrEvnt

CONSTANTS
  WaitSz,     \* SERV_CONF_MAX_WAIT_SEND, HTTPD_CONF_MAX_WAIT_SEND
  ConMax,     \* CONF_DATA_CONNECTION_MAX
  InCore,     \* EX_MAX_W_DATA_INCORE
  MaxR,       \* whole requests that io_r holds
  MaxFs,      \* pieces of a file
  RecvLimit,  \* HTTPD_CONF_RECV_CALL_LIMIT
  SendLimit   \* HTTPD_CONF_SEND_CALL_LIMIT

ASSUME AppAssumption ==
  /\ {WaitSz, ConMax, MaxR, MaxFs} \subseteq Nat
  /\ {RecvLimit, SendLimit} \subseteq Nat \ {0}
  /\ InCore \in Nat \ {0, 1}

Apps == {"echod", "httpd", "cntl"}

(* The outcomes of f in every state that an outcome in S has, for those    *)
(* that succeeded.                                                         *)
Then(S, f(_)) ==
  UNION {IF o.ret THEN f(o.m) ELSE {o} : o \in S}

AddW(m, e, n) == [m EXCEPT !.ev[e].w = AtMost(@ + n, MaxW)]

-----------------------------------------------------------------------------
(* Accepting.  The connection is closed at once if there is no memory for  *)
(* its timer, or if the policy allows no more; only the second comes after *)
(* the listener has been stopped at its own limit.                         *)

(* Mutant: the listener is stopped one connection too late. *)
AcptEndMutant(m) ==
  IF m.max # 0 /\ m.cons > m.max THEN WaitDel(m, m.acpt, {POLLIN}) ELSE m

AcptEnd(m) ==
  IF m.max # 0 /\ m.cons >= m.max THEN WaitDel(m, m.acpt, {POLLIN}) ELSE m

CbAccept(m) ==
  LET e == AnySpare(m)
      con == [Make(m, e, "recv", {POLLIN}, Blank) EXCEPT !.cons = @ + 1]
  IN IF Spare(m) = {} THEN {}
     ELSE {[m |-> AcptEnd(con), con |-> e],
           [m |-> Close(con, e), con |-> e],
           [m |-> Close(AcptEnd(con), e), con |-> e]}

-----------------------------------------------------------------------------
(* evnt_recv(): data is read, there is none, the peer has finished, or it  *)
(* fails.  The time is taken unless nothing can be answered.               *)

Reads(m, e) ==
  IF m.ev[e].quiet THEN {"again"} ELSE {"data", "again", "eof", "err"}

Touch(m, e) == IF m.ev[e].wsh THEN m ELSE Fresh(m, e)

(* evnt_cb_func_recv() after reading got.                                  *)
CbFuncRecv(m, e, got) ==
  CASE got = "data" -> {Result(Touch(m, e), TRUE)}
    [] got = "again" -> {Result(m, TRUE)}
    [] got = "eof" /\ m.ev[e].w > 0 -> ShutdownR(m, e, TRUE)
    [] OTHER -> {Result(m, FALSE)}

-----------------------------------------------------------------------------
(* The echo server.                                                        *)

(* serv_recv() reads up to four times and fails only when the first read   *)
(* fails; what was read is in io_r, not io_w, when the end is met.         *)
EchodRecv(m, e) ==
  LET n(got) == IF got = "data" /\ ~m.ev[e].wsh THEN 1 ELSE 0
      later(o) == {o} \cup IF m.ev[e].quiet THEN {}
                          ELSE CbFuncRecv(o.m, e, "eof")
      read(got) ==
        UNION {IF o.ret
               THEN {Result(AddW(x.m, e, n(got)), TRUE) : x \in later(o)}
               ELSE {o} : o \in CbFuncRecv(m, e, got)}
      send(x) == SendAdd(x, e, FALSE, WaitSz)
  IN Then(UNION {read(got) : got \in Reads(m, e)}, send)

EchodSend(m, e) ==
  LET poll(x) == {Result(IF x.ev[e].w > ConMax THEN WaitDel(x, e, {POLLIN})
                         ELSE WaitAdd(x, e, {POLLIN}), TRUE)}
  IN Then(Send(m, e), poll)

-----------------------------------------------------------------------------
(* The HTTP server.  The functions call each other until they wait for     *)
(* input, are queued to send, or fail; lim is con->io_limit_num.           *)

RECURSIVE HttpdServSend(_, _, _), HttpParseReq(_, _, _),
          ServSendLim(_, _, _, _), ServSendfile(_, _, _), ServRead(_, _, _)

(* Mutant: the queueing is not forced. *)
HttpdServQSendMutant(m, e) == SendAdd(m, e, FALSE, WaitSz)

HttpdServQSend(m, e) == SendAdd(m, e, TRUE, WaitSz)

(* http_fin_req() for an answer of one unit and fs pieces of a file.       *)
HttpFinReq(m, e, keep, fs, lim) ==
  LET input == IF keep THEN [m EXCEPT !.ev[e].r = @ - 1]
               ELSE [WaitDel(m, e, {POLLIN}) EXCEPT !.ev[e].r = 0,
                                                    !.ev[e].part = FALSE]
  IN HttpdServSend([AddW(input, e, 1) EXCEPT !.ev[e].keep = keep,
                                             !.ev[e].fs = fs], e, lim)

(* Mutant: it is not seen that there will be no more input. *)
HttpParseWaitIoRMutant(m, e) == {Result(WaitAdd(m, e, {POLLIN}), TRUE)}

HttpParseWaitIoR(m, e) ==
  IF m.ev[e].rsh THEN {Result(m, m.ev[e].w > 0)}
  ELSE {Result(WaitAdd(m, e, {POLLIN}), TRUE)}

HttpParseReq(m, e, lim) ==
  LET c == m.ev[e]
  IN CASE c.r = 0 /\ ~c.part -> HttpParseWaitIoR(m, e)
       [] c.r = 0 /\ c.part ->
            HttpParseWaitIoR(m, e) \cup HttpFinReq(m, e, FALSE, 0, lim)
              \cup {Result(m, FALSE)}
       [] OTHER ->
            UNION {HttpFinReq(m, e, keep, fs, lim) :
                     keep \in BOOLEAN, fs \in 0 .. MaxFs}
              \cup {Result(m, FALSE)}

HttpdServFinSend(m, e, lim) ==
  IF m.ev[e].keep
  THEN HttpParseReq(IF m.ev[e].rsh THEN m ELSE WaitAdd(m, e, {POLLIN}), e, lim)
  ELSE ShutdownW(m, e)

(* httpd__serv_send_lim() at the three places that call it: sending until  *)
(* there is less than low to send, then going on with what is next there.  *)
ServSendLim(m, e, low, lim) ==
  LET again(x) == ServSendLim(x, e, low, lim - 1)
  IN CASE m.ev[e].w >= low /\ lim = 0 -> HttpdServQSend(m, e)
       [] m.ev[e].w >= low /\ lim > 0 -> Then(Send(m, e), again)
       [] m.ev[e].w < low /\ m.ev[e].fs = 0 -> HttpdServFinSend(m, e, lim)
       [] m.ev[e].w < low /\ m.ev[e].fs > 0 /\ low = 1 -> ServSendfile(m, e, lim)
       [] OTHER -> ServRead(m, e, lim)

FdClose(m, e) == [m EXCEPT !.ev[e].fs = 0]

(* The file ended before its length did.                                   *)
FileCut(m, e) == [FdClose(m, e) EXCEPT !.ev[e].keep = FALSE]

(* sendfile(): some pieces go out, none do, the file has ended, or it      *)
(* fails, after which the file may be read instead.                        *)
ServSendfile(m, e, lim) ==
  LET sent(k) == [Fresh(m, e) EXCEPT !.ev[e].fs = k]
      more(x) == IF x.ev[e].fs = 0 THEN HttpdServSend(x, e, lim - 1)
                 ELSE ServSendfile(x, e, lim - 1)
  IN CASE lim = 0 -> HttpdServQSend(m, e)
       [] lim > 0 /\ m.ev[e].wsh -> {Result(m, FALSE)}
       [] lim > 0 /\ ~m.ev[e].wsh /\ m.ev[e].quiet -> more(m)
       [] OTHER ->
            more(m) \cup UNION {more(sent(k)) : k \in 0 .. m.ev[e].fs - 1}
              \cup HttpdServSend(FileCut(m, e), e, lim - 1)
              \cup {Result(m, FALSE)}
              \cup ServSendLim(m, e, InCore, lim - 1)

(* evnt_sc_read_send(), a piece of the file at a time.                     *)
ServRead(m, e, lim) ==
  LET one == [AddW(m, e, 1) EXCEPT !.ev[e].fs = @ - 1]
      next(x) == ServSendLim(x, e, InCore, lim)
  IN HttpdServSend(FileCut(m, e), e, lim) \cup
     IF one.ev[e].fs = 0 THEN HttpdServSend(one, e, lim)
     ELSE Then(Send(one, e), next)

HttpdServSend(m, e, lim) ==
  IF m.ev[e].fs = 0 THEN ServSendLim(m, e, 1, lim)
  ELSE ServSendLim(m, e, 1, lim) \cup ServSendLim(m, e, InCore, lim)

(* What may be in io_r after reading.                                      *)
Arrive(m, e) ==
  IF m.ev[e].wsh THEN {[m EXCEPT !.ev[e].r = 0, !.ev[e].part = FALSE]}
  ELSE {[m EXCEPT !.ev[e].r = n, !.ev[e].part = p] :
          n \in m.ev[e].r .. MaxR, p \in BOOLEAN}

HttpdServRecv(m, e, lim) ==
  LET in == UNION {CASE got = "data" ->
                          {Result(Touch(x, e), TRUE) : x \in Arrive(m, e)}
                     [] got = "again" -> {Result(m, TRUE)}
                     [] got = "eof" -> ShutdownR(m, e, TRUE)
                     [] got = "err" -> {Result(m, FALSE)} :
                     got \in Reads(m, e)}
      full(x) == {x} \cup IF x.ev[e].r > 0 \/ x.ev[e].part
                          THEN {WaitDel(x, e, {POLLIN})} ELSE {}
      go(x) == IF x.ev[e].fs > 0 THEN {Result(y, TRUE) : y \in full(x)}
               ELSE HttpParseReq(x, e, lim - 1)
  IN Then(in, go)

-----------------------------------------------------------------------------
(* The client of the control socket.  m.ui is the lines that were typed.   *)

RECURSIVE UiLines(_, _)

(* The loop of ui_parse(): every line becomes a request on con.            *)
UiLines(m, con) ==
  LET put(x) == UiLines([PutPkt(x, con) EXCEPT !.ui = @ - 1], con)
      asked == SendAdd(AddW(m, con, 1), con, FALSE, 0)
  IN IF m.ui = 0 THEN {Result(m, TRUE)}
     ELSE {Result(Close(m, con), TRUE)} \cup
          UNION {IF o.ret THEN put(o.m) ELSE {Result(Close(o.m, con), TRUE)} :
                   o \in asked}

(* cl_connect(): the connection needs time, or is there at once, and then  *)
(* it is given the lines; a failure ends the program (ret = FALSE).        *)
ClConnect(m) ==
  LET e == AnySpare(m)
      init == [Blank EXCEPT !.move = TRUE]
  IN {Result(m, FALSE)} \cup
     IF Spare(m) = {} THEN {}
     ELSE {Result(Make(m, e, "connect", {POLLOUT}, init), TRUE)}
            \cup UiLines(Make(m, e, "none", {}, init), e)

UiParse(m) ==
  CASE m.ui = 0 -> {Result(m, TRUE)}
    [] m.ui > 0 /\ LeastUsed(m) = None -> ClConnect(m)
    [] OTHER -> UiLines(m, LeastUsed(m))

(* cl_recv() after reading n whole answers and maybe a part of one.  The   *)
(* peer answers only what was asked of it.  Answers are written to stdout  *)
(* when that is possible (ui_out()).                                       *)
UiOut(m, n) == IF n > 0 /\ m.io.w THEN [m EXCEPT !.io.out = TRUE] ELSE m

ClAnswers(m, e, n, part) ==
  LET got == FoldLeft(LAMBDA x, i : GotPkt(x, e), m, [i \in 1 .. n |-> i])
      left == [UiOut(got, n) EXCEPT !.ev[e].part = part]
  IN Result(left, ~part \/ POLLIN \in left.ev[e].events)

ClRecv(m, e) ==
  LET asked == m.ev[e].owed - m.ev[e].w
      data == {ClAnswers(Touch(m, e), e, n, TRUE) : n \in 0 .. asked - 1}
                \cup {ClAnswers(Touch(m, e), e, n, FALSE) : n \in 1 .. asked}
                \cup {Result(m, FALSE)}
      rest(x) == {ClAnswers(x, e, 0, x.ev[e].part)}
  IN UNION {IF got = "data" THEN data ELSE Then(CbFuncRecv(m, e, got), rest) :
              got \in Reads(m, e)}

(* cl_timer_cli() closes the socket under the event.                       *)
ClTimer(m, e) == [m EXCEPT !.ev[e].gone = TRUE, !.ev[e].old = FALSE]

-----------------------------------------------------------------------------
(* The callbacks by program.                                               *)

CbRecv(app, m, e) ==
  CASE app = "echod" -> EchodRecv(m, e)
    [] app = "httpd" -> HttpdServRecv(m, e, RecvLimit)
    [] app = "cntl" -> ClRecv(m, e)

CbSend(app, m, e) ==
  CASE app = "echod" -> EchodSend(m, e)
    [] app = "httpd" -> HttpdServSend(m, e, SendLimit)
    [] app = "cntl" -> Send(m, e)

CbTimer(app, m, e) ==
  IF app = "cntl" THEN {ClTimer(m, e)} ELSE TimedOut(m, e)

=============================================================================
