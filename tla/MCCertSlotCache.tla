--------------------------- MODULE MCCertSlotCache ---------------------------
(* Small instances of the certificate slot.                                *)
EXTENDS CertSlotCache, TLC

CONSTANTS c1, c2, bundle, unnamed, r1, r2

MCCert == {c1, c2, bundle, unnamed}

MCCrl == {r1, r2}

MCIssued == {<<c1, r1>>, <<c2, r2>>}

\* Workers are interchangeable, and so are the certificates with their CRLs.
Symmetry ==
    {f @@ g : f \in Permutations(Worker),
              g \in {c1 :> c1 @@ c2 :> c2 @@ r1 :> r1 @@ r2 :> r2,
                     c1 :> c2 @@ c2 :> c1 @@ r1 :> r2 @@ r2 :> r1}}

=============================================================================
