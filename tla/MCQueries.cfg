INIT Init
NEXT Next
INVARIANTS  ProgramsAreSolved DependenciesSuffice ValueMethodsAgree SearchesMissNothing ListingsAgree LayersKeepLeaves DefinitionsAreWhole  GroupingIsPartition ChunksCoverBody
CHECK_DEADLOCK FALSE
CONSTANT None = None
