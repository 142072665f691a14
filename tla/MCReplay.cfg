SPECIFICATION Spec
CONSTANTS
  NoBody = NoBody
  NoToken = NoToken
  Keys = {k1}
  Tokens = {t1}
  Bodies = {b1}
  Handlers = {h1}
  MaxNow = 2
  MaxPosts = 2
PROPERTIES
  ReplayAccepted
