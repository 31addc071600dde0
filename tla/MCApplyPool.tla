----------------------------- MODULE MCApplyPool -----------------------------
(* Two workers, and a ring that the messages of the stream wrap, overflow    *)
(* and can fill up to the last int; lengths are even, as MAXALIGN makes them. *)
EXTENDS ApplyPool

CONSTANTS x1, x2

M(kind, tx, len) == [kind |-> kind, tx |-> tx, len |-> len]

MCStream == << M("job", None, 2), M("P", x1, 4), M("AP", x1, 2), M("V", None, 0),
               M("B", None, 0), M("P", x2, 4), M("job", None, 4), M("S", None, 0),
               M("AP", x2, 2) >>
=============================================================================
