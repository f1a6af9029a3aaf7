SPECIFICATION Spec
CONSTANTS
  Count = 2
  Root = Root
  Meta = Meta
  MaxWrites = 2
INVARIANTS SyncedIsKept SecuredIsDurable FilesNeverGoBack 
