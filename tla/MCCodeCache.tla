----------------------------- MODULE MCCodeCache -----------------------------
(* h deploys and stays, v validates and may reboot, o only follows.  Contracts *)
(* with the code q call x.                                                     *)
EXTENDS CodeCache

CONSTANTS h, v, o, x, y, z, p, q

MCDevices == {h, v, o}
MCNames == {x, y, z}
MCCodes == {p, q}
MCCallees == [c \in MCCodes |-> IF c = q THEN {x} ELSE {}]
MCValidators == {h, v}
MCRebooters == {v, o}
MCOffers == {[from |-> h, name |-> x, code |-> p], [from |-> h, name |-> y, code |-> q],
             [from |-> v, name |-> x, code |-> q], [from |-> v, name |-> z, code |-> p]}
=============================================================================
