----------------------------- MODULE MCComposer -----------------------------
EXTENDS Composer
=============================================================================
