------------------------------ MODULE MCArrays ------------------------------
\* The arrays for TLC, over the allocator of glibc on 64 bits: its smallest
\* block holds 24 bytes and larger ones grow in steps of 16.
EXTENDS Arrays
=============================================================================
