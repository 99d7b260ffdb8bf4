----------------------------- MODULE MCEntrega -----------------------------
EXTENDS Entrega
=============================================================================
