---------------------------- MODULE MCMaintenance ----------------------------
EXTENDS Maintenance
=============================================================================
