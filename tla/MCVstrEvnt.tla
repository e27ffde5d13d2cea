----------------------------- MODULE MCVstrEvnt -----------------------------
(***************************************************************************)
(* The servers of the examples for TLC: the event loop with the programs   *)
(* that use it (VstrEvntLoop), whose connections say only how much they    *)
(* have to send, and what the HTTP server answers on a connection          *)
(* (VstrHttpd), which is called as the loop allows.  They share no state:  *)
(* it is enough to run one while the other is untouched.                   *)
(***************************************************************************)
EXTENDS VstrEvntLoop, VstrHttpd

(* A listener and two connections of the echo server, one of the HTTP      *)
(* server, whose connections have many more states, two of the client:     *)
(* program, epoll, events in memory.                                       *)
AllModes == {<<"echod", FALSE, 3>>, <<"echod", TRUE, 3>>,
             <<"httpd", FALSE, 2>>, <<"httpd", TRUE, 2>>, <<"cntl", FALSE, 2>>}

(* Names: a file of three bytes with an encoded version of two, one of no  *)
(* bytes, one that may not be read, none, a directory, and the page for    *)
(* errors with an encoded version.                                         *)
const_Kind == [a |-> "reg", z |-> "reg", p |-> "private", n |-> "none", d |-> "dir",
               e |-> "reg"]
const_Disk == [a |-> 3, g |-> 2, z |-> 0, p |-> 1, d |-> 1, e |-> 2, f |-> 1]
const_Gzip == [n \in DOMAIN const_Disk |->
                 CASE n = "a" -> "g" [] n = "e" -> "f" [] OTHER -> NoFile]

Ask(op, ver, doc) ==
  [op |-> op, ver |-> ver, doc |-> doc, conn |-> "", gz |-> FALSE, expect |-> FALSE,
   hasr |-> FALSE, ranges |-> <<>>, conds |-> {}]

Parts(r, specs) == [r EXCEPT !.hasr = TRUE, !.ranges = specs]

Upto(n, e) == [k |-> "upto", n |-> n, end |-> e]
From(n) == [k |-> "from", n |-> n, end |-> 0]
Tail1(n) == [k |-> "last", n |-> n, end |-> 0]
BadRange == [k |-> "bad", n |-> 0, end |-> 0]

Get == Ask("GET", "1.1", "a")
Old == Ask("GET", "1.0", "a")

const_Asks ==
  {Get, Ask("HEAD", "1.1", "a"), Ask("GET", "0.9", "a"), [Old EXCEPT !.conn = "keep-alive"],
   [Get EXCEPT !.conn = "close"], [Get EXCEPT !.gz = TRUE], [Get EXCEPT !.expect = TRUE],
   Ask("GET", "1.1", "z"), Ask("GET", "1.1", "p"), Ask("GET", "1.1", "n"), Ask("GET", "1.1", "d"),
   Ask("HEAD", "1.1", "n"), [Ask("GET", "1.1", "n") EXCEPT !.gz = TRUE],
   Ask("OPTIONS", "1.1", "a"), Ask("TRACE", "1.1", "a"), Ask("POST", "1.1", "a"),
   Ask("BAD", "1.1", "a"),
   Parts(Get, <<Upto(1, 5)>>), Parts(Get, <<From(0)>>), Parts(Get, <<Tail1(1)>>),
   Parts(Get, <<From(3)>>), Parts(Get, <<Tail1(0)>>),
   Parts(Get, <<Upto(0, 0), Tail1(1)>>), Parts(Get, <<Upto(1, 1), BadRange>>),
   Parts(Get, <<Upto(2, 2), Upto(1, 1), Tail1(2)>>), Parts(Old, <<Upto(1, 1), From(2)>>),
   Parts([Get EXCEPT !.gz = TRUE], <<From(1)>>),
   Parts(Ask("HEAD", "1.1", "a"), <<Upto(1, 1), From(2)>>),
   Parts([Get EXCEPT !.conds = {"ir#"}], <<From(1), From(2)>>),
   Parts([Get EXCEPT !.conds = {"ir="}], <<From(4)>>),
   Parts([Get EXCEPT !.conds = {"inm="}], <<From(1), From(2)>>),
   Parts([Get EXCEPT !.conds = {"im#"}], <<From(1), From(2)>>),
   [Get EXCEPT !.conds = {"ims="}], [Get EXCEPT !.conds = {"iums="}]}

const_Nexts ==
  {Parts(Get, <<Upto(1, 1), From(2)>>), Ask("GET", "1.1", "n"), [Get EXCEPT !.conn = "close"]}

(* The first requests that others may follow. *)
Followed ==
  {Get, Ask("HEAD", "1.1", "a"), [Old EXCEPT !.conn = "keep-alive"], [Get EXCEPT !.gz = TRUE],
   Ask("GET", "1.1", "n"), [Ask("GET", "1.1", "n") EXCEPT !.gz = TRUE],
   Ask("OPTIONS", "1.1", "a"), Ask("POST", "1.1", "a"),
   Parts(Get, <<Upto(0, 0), Tail1(1)>>), Parts(Ask("HEAD", "1.1", "a"), <<Upto(1, 1), From(2)>>),
   Parts([Get EXCEPT !.conds = {"inm="}], <<From(1), From(2)>>)}

const_Policies ==
  {[sendfile |-> TRUE, mmap |-> FALSE, errpage |-> "e", max |-> 0, ranges |-> 2],
   [sendfile |-> FALSE, mmap |-> TRUE, errpage |-> "e", max |-> 2, ranges |-> 3],
   [sendfile |-> FALSE, mmap |-> FALSE, errpage |-> "p", max |-> 0, ranges |-> 3],
   [sendfile |-> TRUE, mmap |-> FALSE, errpage |-> NoFile, max |-> 1, ranges |-> 1]}

VARIABLE side        \* the one that is run

ServersInit ==
  /\ Init /\ HttpdInit
  /\ \/ side = "loop" /\ con.policy.mmap
     \/ side = "httpd" /\ app = "httpd" /\ ~direct /\ m.max = 1

ServersNext ==
  \/ side = "loop" /\ Next /\ UNCHANGED <<httpVars, side>>
  \/ side = "httpd" /\ HttpdNext /\ UNCHANGED <<vars, side>>

(* Bounds: which requests are followed by others, and that the connections *)
(* of the echo server do not all have as much to send as they may have.    *)
Fewer ==
  /\ sent > 1 => (IF asked = <<>> THEN con.in[1] ELSE asked[1].r) \in Followed
  /\ FoldLeft(LAMBDA n, e : n + m.ev[e].w, 0, <<1, 2, 3>>) <= MaxW

ServersSpec == ServersInit /\ [][ServersNext]_<<vars, httpVars, side>>
=============================================================================
