---------------------------- MODULE MCTransport ----------------------------
(* Values for the constants of Sv2Transport that a .cfg file cannot write. *)
EXTENDS Sv2Transport

\* One certificate that is valid at time 1, and one for each reason to refuse.
Signed(version, from, to, authority, static) ==
  [version |-> version, valid_from |-> from, valid_to |-> to,
   sig |-> <<authority, version, from, to, static>>]

Good == Signed(0, 1, 1, "authority", StaticKey)

MCCertificates ==
  {Good,
   Signed(1, 1, 1, "authority", StaticKey),
   Signed(0, 2, 3, "authority", StaticKey),
   Signed(0, 0, 0, "authority", StaticKey),
   Signed(0, 1, 1, "other", StaticKey),
   Signed(0, 1, 1, "authority", EphemeralKey("responder")),
   [Good EXCEPT !.valid_to = 2]}
=============================================================================
