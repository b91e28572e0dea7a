-------------------------------- MODULE MCHub -------------------------------
(* The hub on small instances: one or two publishers, two subscriptions,    *)
(* channels of one slot so that drops are common, rings of one or two.      *)
EXTENDS Hub, TLC

CONSTANTS t1, p1, p2, s1, s2, c1, c2

OneTopic == {t1}
OnePublisher == {p1}
TwoPublishers == {p1, p2}
OneSubscriber == {s1}
TwoSubscribers == {s1, s2}
OneCloser == {c1}
TwoClosers == {c1, c2}
None == {}

Symmetry == Permutations(Publishers) \cup Permutations(Subscribers)
              \cup Permutations(Closers)
=============================================================================
