SPECIFICATION FairSpec
CONSTANTS
  Requests = {post, retry, misuse, open, reopen, clash}
  TaskPosts = {post, retry, misuse}
  KeyOf <- MCKeyOf
  NoKey = NoKey
  BodyOf <- MCBodyOf
  Unknown = {misuse}
  post = post
  retry = retry
  misuse = misuse
  open = open
  reopen = reopen
  clash = clash
  key = key
  b1 = b1
  b2 = b2
INVARIANTS
  OneRowPerKey
  ShownRowIsOwn
PROPERTIES
  RequestsAreAnswered
CHECK_DEADLOCK FALSE
