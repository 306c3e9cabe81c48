SPECIFICATION MCSpec
CONSTANTS
  PlayerSize = 3
  Players = {1, 3}
  ShootAddPoint = 1
  MaxRounds = 1
  Rules <- MCRules
  Decks <- MCDecks
  Memory <- MCMemory
  Orders <- MCOrders
  Strides = {1, 2, 3, 13, 14}
  HandStrides = {1, 2, 3, 4, 5, 6, 7, 8, 9, 10, 11, 12}
  DunRanks = {0, 1, 2, 3, 4, 8, 9, 10, 11, 12}
  PlayTypes = {"normal", "banker"}
INVARIANTS
  HandsAreDealt
CHECK_DEADLOCK FALSE
