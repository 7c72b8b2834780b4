---------------------------- MODULE MCLifecycle ----------------------------
\* Two reply tasks, a bounded run of two beats, and a registry of changing moods.
EXTENDS Lifecycle
=============================================================================
