SPECIFICATION Spec
INVARIANT MembersAtSpecOffsets
