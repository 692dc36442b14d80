SPECIFICATION FairSpec
CONSTANTS
  Stage = Stage
  Manuals = {m1, m2}
  AutoSend = FALSE
  MaxMessages = 2
INVARIANTS OneMessage ReceiptsAreTrue NoUnaskedMessage
PROPERTIES DeliveryEnds
