----------------------------- MODULE MCPtyFlow -------------------------------
(* PtyFlow with the values TLC runs it with: a buffer and sequences of three *)
(* bytes, so that a sequence can be split in every way and fill the buffer,  *)
(* and buffers in the kernel that are smaller than a paste.                  *)
EXTENDS PtyFlow

=============================================================================
