------------------------- MODULE MCTemplateTriggers -------------------------
EXTENDS TemplateTriggers
=============================================================================
