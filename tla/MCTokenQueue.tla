---------------------------- MODULE MCTokenQueue -----------------------------
\* The queue as lexer_init makes it, and longer lookahead than the parser's.
EXTENDS TokenQueue
=============================================================================
