SPECIFICATION Spec
CONSTANT MaxSyncs = 1
PROPERTY OwnConnection
