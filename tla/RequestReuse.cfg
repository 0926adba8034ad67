SPECIFICATION Spec
CONSTANTS
  None = None
  Empty = Empty
  body = body
  file = file
  stream = stream
  Bodies = {body, Empty}
  Uploads = {file}
  Streams = {stream}
  Liberties = {"argument", "fails", "refused", "bare", "multipart", "setters"}
INVARIANT SendsItsVerb
INVARIANT RequestRestored
INVARIANT LibcurlAgrees
