------------------------------- MODULE Layout -------------------------------
(***************************************************************************)
(* Where things are on the device, counted in blocks.  Block 0 holds the   *)
(* boot block, the super block and the table of group descriptors.  Then   *)
(* come the block groups, one after the other: the backup of the super     *)
(* block, the bit map of the blocks, the bit map of the index nodes, the   *)
(* table of index nodes, and a data block for each bit of the first map.   *)
(***************************************************************************)
EXTENDS Integers

CONSTANTS
  GroupCount,   \* block groups (GDT_ITEM_NUM, 3)
  PerGroup,     \* data blocks of a group (BLOCK_NO_MAX / 3, 32768)
  ListBlocks,   \* blocks of a table of index nodes (BLOCKNUM_INODELIST, 576)
  Width         \* unsigned short holds 0 .. Width - 1 (65536)

ASSUME GroupsAssumption == GroupCount \in Nat \ {0} /\ PerGroup \in Nat \ {0}
ASSUME ListAssumption == ListBlocks \in Nat
ASSUME WidthAssumption == Width \in Nat \ {0} /\ Width <= GroupCount * PerGroup

GroupSet == 0 .. GroupCount - 1
Offsets == 0 .. PerGroup - 1
Numbers == 0 .. Width - 1

\* A block number is a group and a place in the group's map.
GroupOf(n) == n \div PerGroup
OffsetOf(n) == n % PerGroup

\* Blocks of a group (BLOCKNUM_PER_BLOCK), and of the device (FS_TOTAL_SIZE).
GroupBlocks == 3 + ListBlocks + PerGroup
DeviceBlocks == 1 + GroupCount * GroupBlocks

\* init_ctrblock_loc: what a group begins with, and its first data block.
ControlBlocks(g) == {0} \cup (1 + g * GroupBlocks .. 3 + ListBlocks + g * GroupBlocks)
DataStart(g) == 4 + ListBlocks + g * GroupBlocks

\* A slip of blockno_to_offset: the number is not taken within its group.
PlaceInDevice(n) == DataStart(GroupOf(n)) + n

\* blockno_to_offset.
Place(n) == DataStart(GroupOf(n)) + OffsetOf(n)
=============================================================================
