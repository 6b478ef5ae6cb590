----------------------------- MODULE MCProxyLoop -----------------------------
(* Small instances of ProxyLoop.                                            *)
EXTENDS ProxyLoop

Msg(kind, op, len, fd) == [kind |-> kind, op |-> op, len |-> len, fd |-> fd]

\* Whole frames: opcodes below 8, every kind of outcome a handler has.
MCMessages ==
  [c2h |-> {Msg("receive", 1, 12, 1), Msg("fatal", 2, 8, 0), Msg("rejectedreceive", 1, 12, 1)},
   h2c |-> {Msg("acked", 3, 12, 1), Msg("consumed", 4, 8, 0), Msg("untracked", 0, 8, 1),
            Msg("badtxn", 0, 12, 1)}]

MCMaxSent == [c2h |-> 2, h2c |-> 3]
MCCutMaxSent == [c2h |-> 1, h2c |-> 1]

\* Frames cut by the receive buffer: a request whose body arrives later.
MCCutMessages ==
  [c2h |-> {Msg("forward", 1, 12, 0)}, h2c |-> {Msg("forward", 0, 8, 0)}]
==============================================================================
