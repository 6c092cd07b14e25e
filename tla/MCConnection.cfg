SPECIFICATION FairSpec
CONSTANTS
  LenMod = 4
  MAX_MESSAGE_LENGTH = 6
  MAX_USERNAME_LENGTH = 3
  MAX_PASSWORD_LENGTH = 2
  Lengths = {0, 1, 3, 5}
  ServerPackets <- MCServerPackets
  Expected = {"FILE_CHUNK_ACK", "FILE_CHUNK"}
  MaxIn = 2
  MaxOut = 2
  MAX_ATTEMPTS = 2
  MAX_PAYLOAD_SIZE = 33
INVARIANTS TypeOK RoundTrip PrefixRefused ReceivedWasSent NothingSkipped SentWhole
PROPERTIES StreamKept CallReturns
