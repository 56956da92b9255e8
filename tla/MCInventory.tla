---------------------------- MODULE MCInventory ----------------------------
EXTENDS Inventory
=============================================================================
