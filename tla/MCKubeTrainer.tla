---------------------------- MODULE MCKubeTrainer ----------------------------
EXTENDS KubeTrainer
=============================================================================
