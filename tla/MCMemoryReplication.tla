-------------------------- MODULE MCMemoryReplication --------------------------
EXTENDS MemoryReplication

================================================================================
