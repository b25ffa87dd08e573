--------------------------- MODULE MCNandSafeFile ---------------------------
EXTENDS NandSafeFile, TLC

Interchangeable == Permutations(Infos)

\* What is left in an inode that nothing refers to is never read: the next file
\* that gets the inode is filled before it is used.
NoLeftovers ==
  <<file, temp, platter, [n \in InUse \cap Inodes |-> content[n]], synced \cap InUse,
    handle, flag, closing, wrote, opens, promise, contended>>
=============================================================================
