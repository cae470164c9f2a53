SPECIFICATION Spec
CONSTANTS
  ByteLen <- MCByteLen
  KeyLen <- MCKeyLen
  KeyHash <- MCKeyHash
  Prefix <- MCPrefix
  Shorthand <- MCShorthand
  ChannelHash <- MCChannelHash
  PresetHashes = {8, 9}
  Lower <- MCLower
  LastByte <- MCLastByte
  Me = 1
  Name <- MCName
  Configs <- MCConfigs
  Peers = {2, 3}
  Line <- MCLine
  PeerContext <- MCPeerContext
  Speech <- MCSpeech
  Words <- MCWords
  AdvertInterval = 1
  InfoFirstDelay = 1
  InfoInterval = 1
  Epoch = 4
  MaxU32 = 9
  AppTimes = {1, 8}
  MaxNow = 2
  MaxRestarts = 1
  TalkUntil = 0
INVARIANTS HonestLabels  PeersUnderstand
