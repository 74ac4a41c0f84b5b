SPECIFICATION FairSpec
CONSTANTS
  OtherChannels = {"discord", "slack", "signal", "imessage", "whatsapp", "teams"}
  Chats = {ch1, ch2}
  Operator = ch1
  Codes = {c1, c2}
  NoChat = NoChat
  NoCode = NoCode
  MaxRecords = 2
  MaxRegenerations = 1
  MaxFaults = 2
INVARIANTS
  CompletedInPlace
  PairedChatEchoed
PROPERTIES
  PairingEnds
CHECK_DEADLOCK FALSE
