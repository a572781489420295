SPECIFICATION SelectSpec
CONSTANTS
  Channels = {35000, 70655, 140000}
  Score <- Scores
  Threshold = 5
  Enhanced = TRUE
  MaxWords = 2
PROPERTY BetterChannelTaken
