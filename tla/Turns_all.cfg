\* An owner, a guest, a message without a user id, a turn without a message, and
\* three draft turns of which two are guarded.
SPECIFICATION TurnsSpec
CONSTANTS
  s1 = s1
  guest = guest
  t1 = t1
  t2 = t2
  t3 = t3
  c1 = c1
  d1 = d1
  d2 = d2
  d3 = d3
  Sender = {s1, guest}
  NoSender = NoSender
  Owner = {s1}
  Chat = {t1, t2, t3}
  Author <- MCAuthor
  SessionOf <- MCSessionOf
  Session = {t1, c1, d1, d2, d3}
  Draft = {d1, d2, d3}
  Unprompted = {c1}
  Max = 2
SYMMETRY Alike
INVARIANTS
  DraftStaysGuarded
  ActsForItsAuthor
