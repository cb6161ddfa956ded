---------------------------- MODULE MCTemplateStore ----------------------------
\* An instance of TemplateStore in which the requests of the daemon are
\* interchangeable. For safety only.
EXTENDS TemplateStore, TLC

Symmetry == Permutations(Request)

================================================================================
