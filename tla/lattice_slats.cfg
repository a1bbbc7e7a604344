SPECIFICATION Spec
CONSTANT SizeBits = 16
INVARIANT SlatsCoverInput
