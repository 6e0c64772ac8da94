------------------------------ MODULE MCRvPlic ------------------------------
\* Constants for model checking RvPlic: sources of both words of a register,
\* and on both sides of the edge between them.
EXTENDS RvPlic

MCSource == {1, 31, 32}
=============================================================================
