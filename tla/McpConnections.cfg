SPECIFICATION Spec
CONSTANTS
  Sources <- TestSources
  Scopes = {u, v}
  Calls = {c1, c2}
  Conns = {n1, n2, n3, n4, n5, n6, n7}
  None = None
VIEW Relevant
INVARIANT OwnElicitation
INVARIANT RetryOnAnother
INVARIANT OwnCredentials
