--------------------------- MODULE MCCertService ---------------------------
(* The certificate service for TLC.                                        *)
EXTENDS CertService, TLC

\* The second entry of l1 is ignored.
MCSlots ==
    <<[name |-> "l1", backend |-> "DEFAULT"],
      [name |-> "l2", backend |-> "token"],
      [name |-> "l1", backend |-> "none"]>>

\* t3 names a slot that is not configured, t4 cannot be read.
MCStores ==
    <<[name |-> "t1", members |-> <<[slot |-> "l1", kind |-> "conditional"]>>, loads |-> TRUE],
      [name |-> "t2", members |-> <<[slot |-> "l1", kind |-> "static"]>>, loads |-> TRUE],
      [name |-> "t3", members |-> <<[slot |-> "l3", kind |-> "static"]>>, loads |-> TRUE],
      [name |-> "t4", members |-> << >>, loads |-> FALSE]>>

\* The first mapping of a slot's resource counts, and the last of a store's.
MCSlotMappings ==
    <<[uid |-> 1, resource |-> "slot", name |-> "l1"], [uid |-> 1, resource |-> "slot", name |-> "l2"]>>
MCStoreMappings ==
    <<[uid |-> 1, resource |-> "store", name |-> "t2"], [uid |-> 1, resource |-> "store", name |-> "t1"],
      [uid |-> 1, resource |-> "broken", name |-> "t3"], [uid |-> 1, resource |-> "unread", name |-> "t4"]>>

MCProvider == [p \in {"soft", "token"} |-> [certs |-> p = "soft", parser |-> TRUE, slots |-> p = "token"]]

MCUid == [c \in Client |-> 1]

=============================================================================
