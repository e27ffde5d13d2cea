---------------------------- MODULE MCVstrCstr ----------------------------
(* Two strings, one allocated with its C string cache and one without, and *)
(* a few buffers.                                                          *)
EXTENDS VstrCstr, TLC

CONSTANTS s1, s2

Symm == Permutations(Buf)

Lengths == s1 :> 3 @@ s2 :> 2

(* The bytes from offset off of a buffer on, if they are there. *)
BytesAt(r, off, n) == SubSeq(buf[r].data, off + 1, off + n)

(* What the program can still find out: of a cache in use the bytes it     *)
(* remembers, of any cache its buffer and the size of it, of a C string a  *)
(* user keeps its bytes.  The other bytes of a buffer, and where in it      *)
(* these are, is never looked at: a buffer is written to only when it is   *)
(* new or has one reference, and then from its beginning.                  *)
CacheView(c) ==
  IF InUse(c) THEN <<[c EXCEPT !.off = 0], BytesAt(c.ref, c.off, c.len + 1)>>
  ELSE <<c.made, c.ref, IF c.ref = NoBuf THEN 0 ELSE c.sz>>

HeldView(h) ==
  IF h.kind = "cstr" THEN <<h.ref, h.want, BytesAt(h.ref, h.off, Len(h.want))>>
  ELSE <<h.kind, h.ref>>

StateView ==
  <<str, [b \in Base |-> CacheView(cache[b])], [r \in Buf |-> buf[r].ref],
    [h \in Handle |-> HeldView(held[h])]>>
=============================================================================
