SPECIFICATION FairHttpSpec
CONSTANTS
  None = None
  get = get
  head = head
  post = post
  put = put
  delete = delete
  Requests = {get, head, post, put, delete}
  VerbOf <- FiveVerbs
  MaxConnects = 3
  Faults = {"callback", "option"}
INVARIANT PoolIsSound
INVARIANT FailureIsRaised
INVARIANT VerbAsAsked
PROPERTY HttpEnds
