------------------------ MODULE MCSemanticExtraction ------------------------
EXTENDS SemanticExtraction
=============================================================================
