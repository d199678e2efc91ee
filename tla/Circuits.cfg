SPECIFICATION Spec
CONSTANTS
    Designs <- Circuits
INVARIANTS TypeOK DrivenOnce NeverAborts ErrorsReachTop ErrorOnlyOnDisagreement VotersControlled MasksEachPath RestoresEachPath ErrorsCollected VotersWired
PROPERTIES BehavesAsOriginal RegistersRecover
