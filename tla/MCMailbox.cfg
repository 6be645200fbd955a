SPECIFICATION FairSpec
CONSTANTS
  Msg = {m1, m2, m3}
  Sender = {s1, s2}
  Owner = o
  Null = Null
INVARIANTS
  MailboxSound
PROPERTIES
  ImplementsChannel
  Delivered
