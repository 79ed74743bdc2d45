SPECIFICATION Spec
CONSTANT MaxLeaf = 6
INVARIANT MembersCanBeRemoved
