---------------------------- MODULE MCRelatorios ----------------------------
EXTENDS Relatorios
=============================================================================
